---- MODULE Spec2Model ----
(***************************************************************************)
(* PhoneTracer (puspanDas/project-X): the risk-scoring engine and the      *)
(* chat fallback of backend/ai_service.py, with the lazily loaded text     *)
(* generator they share; the same with requests served concurrently; the  *)
(* endpoints of backend/main.py that keep the reports and the history,     *)
(* one request at a time and as coroutines of one event loop; and the      *)
(* launcher run_app.py with the child processes it starts and stops.       *)
(*                                                                         *)
(* Python values are tagged records (PyNone, PyBool, PyInt, PyStr), so     *)
(* that truthiness, defaults of dict.get and type errors are computed as   *)
(* Python computes them.  A dict is a function from its keys to values; a  *)
(* key that is absent is absent from the DOMAIN.  Strings are TLA+ strings *)
(* handled character by character (Len, SubSeq, \o).  The module language  *)
(* is ASCII: the em dash of the source's messages is written "-", and the  *)
(* emoji that open some canned texts are written as bracketed tags.        *)
(***************************************************************************)
EXTENDS Integers, Sequences, FiniteSets, TLC

VARIABLES
    llm,         \* _llm: "None", or "Llama" once the model object exists
    llm_status,  \* _llm_status: [state, error, model_name]
    now,         \* the wall clock read by datetime.now()
    call,        \* the function call that has just been made, with its arguments
    ret,         \* what that call returned, or the exception it raised
    gen,         \* what the text generator did during that call
    first,       \* the first analyze_number/chat call observed, and its result
    threads,     \* the requests running concurrently, each with its local state
    llm_lock,    \* _llm_lock: "unlocked", or the thread that holds it
    reports_file,  \* what load_json(REPORTS_FILE) returns: the stored reports
    history_file,  \* what load_json(HISTORY_FILE) returns: the lookup history
    main_pc,     \* run_app.main: the statement it is at
    processes,   \* run_app.main: its list processes, by the children's names
    children,    \* the child processes run_app starts: what each is doing
    cleanup      \* run_app.main: the position in processes of p in the finally loop

vars == <<llm, llm_status, now, call, ret, gen, first,
          threads, llm_lock, reports_file, history_file,
          main_pc, processes, children, cleanup>>

\* the state of the concurrent requests
threadVars == <<threads, llm_lock>>

\* the state of the stored files
storeVars == <<reports_file, history_file>>

\* the state of the launcher run_app.py and of the children it starts
launchVars == <<main_pc, processes, children, cleanup>>

\* the state of the backend
backendVars == <<llm, llm_status, now, call, ret, gen, first,
                 threads, llm_lock, reports_file, history_file>>

(***************************************************************************)
(* Python values                                                           *)
(***************************************************************************)
PyNone == [t |-> "None"]

PyBool(b) == [t |-> "bool", v |-> b]

PyInt(n) == [t |-> "int", v |-> n]

PyStr(s) == [t |-> "str", v |-> s]

IsStr(x) == x.t = "str"

IsNumber(x) == x.t \in {"int", "bool"}

\* the integer a bool or int stands for in arithmetic and comparisons
IntOf(x) == IF x.t = "bool" THEN (IF x.v THEN 1 ELSE 0) ELSE x.v

\* bool(x)
Truthy(x) ==
    CASE x.t = "None" -> FALSE
      [] x.t = "bool" -> x.v
      [] x.t = "int"  -> x.v # 0
      [] x.t = "str"  -> x.v # ""

\* x == y
PyEq(x, y) ==
    IF IsNumber(x) /\ IsNumber(y) THEN IntOf(x) = IntOf(y) ELSE x = y

\* x or y
PyOr(x, y) == IF Truthy(x) THEN x ELSE y

\* d.get(k, default)
Get(d, k, default) == IF k \in DOMAIN d THEN d[k] ELSE default

\* d.get(k)
GetOrNone(d, k) == Get(d, k, PyNone)

(***************************************************************************)
(* Strings                                                                 *)
(***************************************************************************)
Digits == "0123456789"

CharAt(s, i) == SubSeq(s, i, i)

\* the lower-case letter of each upper-case letter
LowerOf ==
    [A |-> "a", B |-> "b", C |-> "c", D |-> "d", E |-> "e", F |-> "f", G |-> "g",
     H |-> "h", I |-> "i", J |-> "j", K |-> "k", L |-> "l", M |-> "m", N |-> "n",
     O |-> "o", P |-> "p", Q |-> "q", R |-> "r", S |-> "s", T |-> "t", U |-> "u",
     V |-> "v", W |-> "w", X |-> "x", Y |-> "y", Z |-> "z"]

LowerChar(c) == IF c \in DOMAIN LowerOf THEN LowerOf[c] ELSE c

RECURSIVE Lower(_)
\* str.lower()
Lower(s) == IF s = "" THEN "" ELSE LowerChar(CharAt(s, 1)) \o Lower(Tail(s))

\* the positions at which k occurs in s
Occurrences(s, k) ==
    {i \in 1..(Len(s) - Len(k) + 1) : SubSeq(s, i, i + Len(k) - 1) = k}

\* k in s
Contains(s, k) == k = "" \/ Occurrences(s, k) # {}

IsSpace(c) == c \in {" ", "\n", "\t", "\r"}

RECURSIVE LStrip(_)
LStrip(s) == IF s # "" /\ IsSpace(CharAt(s, 1)) THEN LStrip(Tail(s)) ELSE s

RECURSIVE RStrip(_)
RStrip(s) ==
    IF s # "" /\ IsSpace(CharAt(s, Len(s)))
    THEN RStrip(SubSeq(s, 1, Len(s) - 1))
    ELSE s

\* str.strip()
Strip(s) == RStrip(LStrip(s))

Min(a, b) == IF a <= b THEN a ELSE b

Max(a, b) == IF a >= b THEN a ELSE b

SetMin(S) == CHOOSE x \in S : \A y \in S : x <= y

\* Split1 cutting at the last separator where the code cuts at the first
SplitAtLast(s, sep) ==
    IF Occurrences(s, sep) = {}
    THEN <<s>>
    ELSE LET i == CHOOSE x \in Occurrences(s, sep) : \A y \in Occurrences(s, sep) : x >= y
         IN  <<SubSeq(s, 1, i - 1), SubSeq(s, i + Len(sep), Len(s))>>

\* s.split(sep, 1)
Split1(s, sep) ==
    IF Occurrences(s, sep) = {}
    THEN <<s>>
    ELSE LET i == SetMin(Occurrences(s, sep))
         IN  <<SubSeq(s, 1, i - 1), SubSeq(s, i + Len(sep), Len(s))>>

RECURSIVE NatStr(_)
NatStr(n) ==
    IF n < 10 THEN CharAt(Digits, n + 1)
    ELSE NatStr(n \div 10) \o CharAt(Digits, (n % 10) + 1)

\* str(n) of an integer
IntStr(n) == IF n < 0 THEN "-" \o NatStr(-n) ELSE NatStr(n)

\* str(x), as an f-string or str.format renders a value
PyFormat(x) ==
    CASE x.t = "None" -> "None"
      [] x.t = "bool" -> (IF x.v THEN "True" ELSE "False")
      [] x.t = "int"  -> IntStr(x.v)
      [] x.t = "str"  -> x.v

\* template.format(name=value): the first "{name}" replaced by value
Format(template, name, value) ==
    LET hole == "{" \o name \o "}"
        parts == Split1(template, hole)
    IN  IF Len(parts) = 1 THEN template ELSE parts[1] \o value \o parts[2]

RECURSIVE Join(_, _)
\* sep.join(strs)
Join(strs, sep) ==
    IF strs = <<>> THEN ""
    ELSE IF Len(strs) = 1 THEN strs[1]
    ELSE strs[1] \o sep \o Join(Tail(strs), sep)

\* seq[:n]
Take(seq, n) == SubSeq(seq, 1, Min(n, Len(seq)))

(***************************************************************************)
(* Risk data tables                                                        *)
(***************************************************************************)
MODEL_FILE == "qwen2.5-0.5b-instruct-q4_k_m.gguf"

HIGH_RISK_COUNTRIES ==
    {"NG", "GH", "CI", "CM", "SN", "PK", "BD", "IN", "RU", "UA", "PH", "ID"}

MEDIUM_RISK_COUNTRIES ==
    {"CN", "BR", "MX", "CO", "VE", "EG", "DZ", "MA", "TN", "TR", "IR", "IQ",
     "RO", "BG", "AL"}

SEVERE_KEYWORDS ==
    <<"bank", "account", "password", "ssn", "social security", "irs", "fbi",
      "arrest", "warrant", "court", "wire transfer", "bitcoin", "crypto",
      "gift card", "western union", "moneygram", "ransom", "blackmail",
      "threaten", "kidnap", "extort">>

MODERATE_KEYWORDS ==
    <<"spam", "robot", "automated", "recording", "press 1", "free",
      "winner", "congratulations", "prize", "vacation", "offer",
      "insurance", "warranty", "extend", "solar", "energy",
      "debt", "loan", "credit", "rate", "lower">>

REPORT_SEVERITY ==
    [fraud |-> 30, scam |-> 28, phishing |-> 25, harassment |-> 20,
     robocall |-> 12, telemarketer |-> 10, spam |-> 8, other |-> 5]

\* (threshold, points, message template), highest threshold first
SPAM_THRESHOLDS ==
    <<[threshold |-> 10, points |-> 35,
       template |-> "Extremely high report volume ({count} reports)"],
      [threshold |-> 5, points |-> 25,
       template |-> "High number of community reports ({count})"],
      [threshold |-> 2, points |-> 15,
       template |-> "Multiple community reports ({count})"],
      [threshold |-> 1, points |-> 8,
       template |-> "1 community report filed"]>>

LINE_TYPE_SCORES ==
    [k \in {"voip", "premium rate", "toll-free"} |->
        CASE k = "voip" ->
               [points |-> 15,
                msg |-> "VoIP number - commonly used for spoofing and scam calls"]
          [] k = "premium rate" ->
               [points |-> 12,
                msg |-> "Premium rate number - may incur unexpected charges"]
          [] k = "toll-free" ->
               [points |-> 5,
                msg |-> "Toll-free number - sometimes used by telemarketers"]]

\* LINE_TYPE_LANDLINE without the discount
LineTypeLandlineNoDiscount ==
    [points |-> 0, msg |-> "Landline number - generally lower risk"]

LINE_TYPE_LANDLINE ==
    [points |-> -3, msg |-> "Landline number - generally lower risk"]

\* (threshold, level), tried top-down
RISK_LEVELS ==
    <<[threshold |-> 70, level |-> "Critical"],
      [threshold |-> 45, level |-> "High"],
      [threshold |-> 25, level |-> "Medium"],
      [threshold |-> 0, level |-> "Low"]>>

\* THREAT_TYPE_MAP with the scam rule ahead of the fraud/phishing rule
ThreatTypeMapScamFirst ==
    <<[types |-> {"scam"}, label |-> "Scam"],
      [types |-> {"fraud", "phishing"}, label |-> "Fraud / Phishing"],
      [types |-> {"harassment"}, label |-> "Harassment"],
      [types |-> {"robocall", "telemarketer"}, label |-> "Telemarketing"],
      [types |-> {"spam"}, label |-> "Spam"]>>

\* (set of report types, label), tried in order
THREAT_TYPE_MAP ==
    <<[types |-> {"fraud", "phishing"}, label |-> "Fraud / Phishing"],
      [types |-> {"scam"}, label |-> "Scam"],
      [types |-> {"harassment"}, label |-> "Harassment"],
      [types |-> {"robocall", "telemarketer"}, label |-> "Telemarketing"],
      [types |-> {"spam"}, label |-> "Spam"]>>

RISK_OPENERS ==
    [k \in {"Critical", "High", "Medium", "Low"} |->
        CASE k = "Critical" ->
               "[warning] This number ({number}) shows strong indicators of malicious activity."
          [] k = "High" ->
               "This number ({number}) has several concerning risk factors."
          [] k = "Medium" ->
               "This number ({number}) has some risk indicators worth noting."
          [] k = "Low" ->
               "This number ({number}) appears to be relatively safe."]

\* the canned paragraphs, each by its first sentence
RECOMMENDATIONS ==
    [k \in {"Critical", "High", "Medium", "Low"} |->
        CASE k = "Critical" ->
               "[no entry] Do NOT answer or return calls from this number."
          [] k = "High" ->
               "[warning] Exercise extreme caution with this number."
          [] k = "Medium" ->
               "[caution] Be cautious when interacting with this number."
          [] k = "Low" ->
               "[ok] This number appears safe based on available data."]

(***************************************************************************)
(* Outcomes of a function: a value, or an exception that leaves it         *)
(***************************************************************************)
Returned(value) == [raised |-> "", value |-> value]

Raised(exception) == [raised |-> exception, value |-> PyNone]

\* a Factor Result: (points, messages)
Factor(points, msgs) == Returned([points |-> points, msgs |-> msgs])

(***************************************************************************)
(* Scoring helpers                                                         *)
(***************************************************************************)
\* SpamRow comparing with > where the code compares with >=
SpamRowStrict(count) ==
    LET hit == {i \in 1..Len(SPAM_THRESHOLDS) : count > SPAM_THRESHOLDS[i].threshold}
    IN  IF hit = {} THEN 0 ELSE SetMin(hit)

\* the first row of SPAM_THRESHOLDS that count reaches, 0 when none
SpamRow(count) ==
    LET hit == {i \in 1..Len(SPAM_THRESHOLDS) : count >= SPAM_THRESHOLDS[i].threshold}
    IN  IF hit = {} THEN 0 ELSE SetMin(hit)

_score_spam_reports(spam_count) ==
    IF ~IsNumber(spam_count) THEN Raised("TypeError")
    ELSE LET row == SpamRow(IntOf(spam_count))
         IN  IF row = 0 THEN Factor(0, <<>>)
             ELSE Factor(SPAM_THRESHOLDS[row].points,
                         <<Format(SPAM_THRESHOLDS[row].template, "count",
                                  PyFormat(spam_count))>>)

\* next(kw for kw in keywords if kw in desc), "" when there is none
FirstKeyword(keywords, desc) ==
    LET hit == {i \in 1..Len(keywords) : Contains(desc, keywords[i])}
    IN  IF hit = {} THEN "" ELSE keywords[SetMin(hit)]

\* REPORT_SEVERITY.get(rtype, 5)
Severity(rtype) == IF rtype \in DOMAIN REPORT_SEVERITY THEN REPORT_SEVERITY[rtype] ELSE 5

\* the loop of _score_report_contents over reports[i..], from the running
\* (score, factors, type_score_total) in acc
RECURSIVE ReportLoop(_, _, _)
ReportLoop(reports, i, acc) ==
    IF i > Len(reports) THEN Returned(acc)
    ELSE LET report == reports[i]
             rtype == Get(report, "type", PyStr("other"))
             desc == Get(report, "description", PyStr(""))
         IN  IF ~IsStr(rtype) \/ ~IsStr(desc) THEN Raised("AttributeError")
             ELSE LET d == Lower(desc.v)
                      total == acc.type_score_total + Severity(Lower(rtype.v))
                      severe == FirstKeyword(SEVERE_KEYWORDS, d)
                      moderate == FirstKeyword(MODERATE_KEYWORDS, d)
                  IN  IF severe # ""
                      THEN ReportLoop(reports, i + 1,
                               [score |-> acc.score + 5,
                                factors |-> Append(acc.factors,
                                    "Severe keyword detected: '" \o severe \o "' in report"),
                                type_score_total |-> total])
                      ELSE IF moderate # ""
                      THEN ReportLoop(reports, i + 1,
                               [score |-> acc.score + 2,
                                factors |-> acc.factors,
                                type_score_total |-> total])
                      ELSE ReportLoop(reports, i + 1,
                               [score |-> acc.score,
                                factors |-> acc.factors,
                                type_score_total |-> total])

\* _score_report_contents without the cap on the type scores
ScoreReportContentsUncapped(reports) ==
    LET loop == ReportLoop(reports, 1,
                    [score |-> 0, factors |-> <<>>, type_score_total |-> 0])
    IN  IF loop.raised # "" THEN loop
        ELSE Factor(loop.value.score + loop.value.type_score_total, loop.value.factors)

_score_report_contents(reports) ==
    LET loop == ReportLoop(reports, 1,
                    [score |-> 0, factors |-> <<>>, type_score_total |-> 0])
    IN  IF loop.raised # "" THEN loop
        ELSE IF loop.value.type_score_total > 0
        THEN Factor(loop.value.score + Min(loop.value.type_score_total, 20),
                    loop.value.factors)
        ELSE Factor(loop.value.score, loop.value.factors)

_score_validity(trace_data) ==
    IF ~Truthy(Get(trace_data, "valid", PyBool(TRUE)))
    THEN Factor(15, <<"Number flagged as invalid/not active">>)
    ELSE IF ~Truthy(Get(trace_data, "possible", PyBool(TRUE)))
    THEN Factor(10, <<"Number format is not possible for this region">>)
    ELSE Factor(0, <<>>)

\* _score_line_type taking a landline only by its exact label
ScoreLineTypeExactLandline(trace_data) ==
    LET value == PyOr(GetOrNone(trace_data, "line_type"), PyStr(""))
    IN  IF ~IsStr(value) THEN Raised("AttributeError")
        ELSE LET line_type == Lower(value.v)
             IN  IF line_type \in DOMAIN LINE_TYPE_SCORES
                 THEN Factor(LINE_TYPE_SCORES[line_type].points,
                             <<LINE_TYPE_SCORES[line_type].msg>>)
                 ELSE IF line_type = "landline"
                 THEN Factor(LINE_TYPE_LANDLINE.points, <<LINE_TYPE_LANDLINE.msg>>)
                 ELSE Factor(0, <<>>)

_score_line_type(trace_data) ==
    LET value == PyOr(GetOrNone(trace_data, "line_type"), PyStr(""))
    IN  IF ~IsStr(value) THEN Raised("AttributeError")
        ELSE LET line_type == Lower(value.v)
             IN  IF line_type \in DOMAIN LINE_TYPE_SCORES
                 THEN Factor(LINE_TYPE_SCORES[line_type].points,
                             <<LINE_TYPE_SCORES[line_type].msg>>)
                 ELSE IF Contains(line_type, "landline")
                 THEN Factor(LINE_TYPE_LANDLINE.points, <<LINE_TYPE_LANDLINE.msg>>)
                 ELSE Factor(0, <<>>)

\* _score_country saying nothing of a country of normal risk
ScoreCountrySilent(trace_data) ==
    LET country_code == Get(trace_data, "country_code", PyStr(""))
        country_name == Get(trace_data, "country_name",
                            PyOr(country_code, PyStr("Unknown")))
    IN  IF IsStr(country_code) /\ country_code.v \in HIGH_RISK_COUNTRIES
        THEN Factor(15, <<"Originates from high-risk telecom fraud region ("
                          \o PyFormat(country_name) \o ")">>)
        ELSE IF IsStr(country_code) /\ country_code.v \in MEDIUM_RISK_COUNTRIES
        THEN Factor(8, <<"Originates from medium-risk region ("
                         \o PyFormat(country_name) \o ")">>)
        ELSE Factor(0, <<>>)

_score_country(trace_data) ==
    LET country_code == Get(trace_data, "country_code", PyStr(""))
        country_name == Get(trace_data, "country_name",
                            PyOr(country_code, PyStr("Unknown")))
    IN  IF IsStr(country_code) /\ country_code.v \in HIGH_RISK_COUNTRIES
        THEN Factor(15, <<"Originates from high-risk telecom fraud region ("
                          \o PyFormat(country_name) \o ")">>)
        ELSE IF IsStr(country_code) /\ country_code.v \in MEDIUM_RISK_COUNTRIES
        THEN Factor(8, <<"Originates from medium-risk region ("
                         \o PyFormat(country_name) \o ")">>)
        ELSE Factor(0, <<"Country risk: normal (" \o PyFormat(country_name) \o ")">>)

_score_carrier(trace_data) ==
    LET value == PyOr(GetOrNone(trace_data, "carrier"), PyStr(""))
    IN  IF ~IsStr(value) THEN Raised("AttributeError")
        ELSE LET carrier == Lower(value.v)
             IN  IF carrier = "" \/ carrier = "unknown"
                 THEN Factor(10, <<"Carrier is unknown - may indicate a virtual or disposable number">>)
                 ELSE IF \E indicator \in {"virtual", "voip", "internet"} :
                             Contains(carrier, indicator)
                 THEN Factor(8, <<"Virtual/internet-based carrier detected: "
                                  \o PyFormat(GetOrNone(trace_data, "carrier"))>>)
                 ELSE Factor(0, <<>>)

_score_porting(trace_data) ==
    LET original == Get(trace_data, "original_carrier", PyStr(""))
        current == Get(trace_data, "carrier", PyStr(""))
    IN  IF Truthy(original) /\ Truthy(current) /\ ~PyEq(original, current)
        THEN IF ~IsStr(current) THEN Raised("AttributeError")
             ELSE IF Lower(current.v) # "unknown"
             THEN Factor(5, <<"Number was ported from " \o PyFormat(original)
                              \o " to " \o PyFormat(current)>>)
             ELSE Factor(0, <<>>)
        ELSE Factor(0, <<>>)

(***************************************************************************)
(* Core analysis functions                                                 *)
(***************************************************************************)
\* _determine_risk_level comparing with > where the code compares with >=
RiskLevelStrict(score) ==
    LET hit == {i \in 1..Len(RISK_LEVELS) : score > RISK_LEVELS[i].threshold}
    IN  IF hit = {} THEN Returned("Low")
        ELSE Returned(RISK_LEVELS[SetMin(hit)].level)

\* next(level for threshold, level in RISK_LEVELS if score >= threshold)
_determine_risk_level(score) ==
    LET hit == {i \in 1..Len(RISK_LEVELS) : score >= RISK_LEVELS[i].threshold}
    IN  IF hit = {} THEN Raised("StopIteration")
        ELSE Returned(RISK_LEVELS[SetMin(hit)].level)

\* {r.get("type", "").lower() for r in reports}
ReportTypes(reports) ==
    {Lower(Get(reports[i], "type", PyStr("")).v) : i \in 1..Len(reports)}

\* ThreatHeuristic with the score ladder tested lowest threshold first
ThreatHeuristicLowFirst(line_type, score) ==
    IF line_type = "voip" /\ score >= 30 THEN "Suspicious VoIP"
    ELSE IF line_type = "premium rate" THEN "Premium Rate"
    ELSE IF score >= 25 THEN "Potentially Unwanted"
    ELSE IF score >= 45 THEN "Suspicious"
    ELSE "Clean"

\* ThreatHeuristic without its last case
ThreatHeuristicNeverClean(line_type, score) ==
    IF line_type = "voip" /\ score >= 30 THEN "Suspicious VoIP"
    ELSE IF line_type = "premium rate" THEN "Premium Rate"
    ELSE IF score >= 45 THEN "Suspicious"
    ELSE "Potentially Unwanted"

\* ThreatHeuristic calling a number suspicious from a score of 40
ThreatHeuristicEarly(line_type, score) ==
    IF line_type = "voip" /\ score >= 30 THEN "Suspicious VoIP"
    ELSE IF line_type = "premium rate" THEN "Premium Rate"
    ELSE IF score >= 40 THEN "Suspicious"
    ELSE IF score >= 25 THEN "Potentially Unwanted"
    ELSE "Clean"

\* the fallback heuristics of _determine_threat_type, on the lower-cased line type
ThreatHeuristic(line_type, score) ==
    IF line_type = "voip" /\ score >= 30 THEN "Suspicious VoIP"
    ELSE IF line_type = "premium rate" THEN "Premium Rate"
    ELSE IF score >= 45 THEN "Suspicious"
    ELSE IF score >= 25 THEN "Potentially Unwanted"
    ELSE "Clean"

_determine_threat_type(trace_data, reports, score) ==
    IF \E i \in 1..Len(reports) : ~IsStr(Get(reports[i], "type", PyStr("")))
    THEN Raised("AttributeError")
    ELSE
    LET report_types == ReportTypes(reports)
        hit == {i \in 1..Len(THREAT_TYPE_MAP) :
                    report_types \cap THREAT_TYPE_MAP[i].types # {}}
        value == PyOr(GetOrNone(trace_data, "line_type"), PyStr(""))
    IN  IF hit # {} THEN Returned(THREAT_TYPE_MAP[SetMin(hit)].label)
        ELSE IF ~IsStr(value) THEN Raised("AttributeError")
        ELSE Returned(ThreatHeuristic(Lower(value.v), score))

_generate_analysis(trace_data, factors, risk_level, score) ==
    LET number == Get(trace_data, "formatted_international",
                      Get(trace_data, "number", PyStr("Unknown")))
        country == Get(trace_data, "country_name", PyStr("Unknown"))
        carrier == Get(trace_data, "carrier", PyStr("Unknown"))
        line_type == Get(trace_data, "line_type", PyStr("Unknown"))
        opener == Format(IF risk_level \in DOMAIN RISK_OPENERS
                         THEN RISK_OPENERS[risk_level] ELSE RISK_OPENERS["Low"],
                         "number", PyFormat(number))
        details == "It is a " \o PyFormat(line_type) \o " number from "
                   \o PyFormat(country)
                   \o (IF Truthy(carrier) /\ ~PyEq(carrier, PyStr("Unknown"))
                       THEN ", operated by " \o PyFormat(carrier) ELSE "")
                   \o "."
        key_factors == IF factors # <<>>
                       THEN " Key findings: " \o Join(Take(factors, 3), "; ") \o "."
                       ELSE " No significant risk factors detected."
    IN  opener \o " " \o details \o key_factors

_generate_recommendation(risk_level, threat_type, trace_data) ==
    IF risk_level \in DOMAIN RECOMMENDATIONS
    THEN RECOMMENDATIONS[risk_level] ELSE RECOMMENDATIONS["Low"]

(***************************************************************************)
(* The text generator                                                      *)
(*                                                                         *)
(* What the environment does to one call of _llm_generate is a record      *)
(*   load:    "cached" (_llm is already set), "ok", "download_error" (the  *)
(*            download raises), "load_error" (the import or the            *)
(*            construction of the model raises)                            *)
(*   call:    "not_called", "raised" (create_chat_completion raises),      *)
(*            "returned"                                                   *)
(*   content: the message content of the completion, a string or None      *)
(***************************************************************************)
\* str(e) of the exception a failed load raises
LoadErrorText(load) ==
    IF load = "download_error" THEN "download failed" ELSE "cannot load model"

\* _load_llm under the lock: the new (_llm, _llm_status)
_load_llm(l, status, load) ==
    IF l # "None" THEN [llm |-> l, status |-> status]
    ELSE IF load = "ok"
    THEN [llm |-> "Llama",
          status |-> [status EXCEPT !.state = "ready",
                                    !.model_name = PyStr(MODEL_FILE)]]
    ELSE [llm |-> "None",
          status |-> [status EXCEPT !.state = "error",
                                    !.error = PyStr(LoadErrorText(load))]]

\* _llm_generate returning the text of the failure where the code returns None
LlmGenerateErrorText(l, env) ==
    IF l = "None" THEN PyStr("The language model is not available right now.")
    ELSE IF env.call = "raised" THEN PyStr("The language model failed to answer.")
    ELSE IF ~IsStr(env.content) THEN PyStr("The language model returned no text.")
    ELSE PyStr(Strip(env.content.v))

\* what _llm_generate returns: the stripped content, or None
_llm_generate(l, env) ==
    IF l = "None" THEN PyNone
    ELSE IF env.call = "raised" THEN PyNone
    ELSE IF ~IsStr(env.content) THEN PyNone
    ELSE PyStr(Strip(env.content.v))

(***************************************************************************)
(* analyze_number                                                          *)
(***************************************************************************)
\* the scoring_functions list without its last entry
ScoringResultsNoPorting(trace_data, reports) ==
    <<_score_spam_reports(Get(trace_data, "spam_reports", PyInt(0))),
      _score_report_contents(reports),
      _score_validity(trace_data),
      _score_line_type(trace_data),
      _score_country(trace_data),
      _score_carrier(trace_data)>>

\* the scoring_functions list with the country scorer moved to the front
ScoringResultsCountryFirst(trace_data, reports) ==
    <<_score_country(trace_data),
      _score_spam_reports(Get(trace_data, "spam_reports", PyInt(0))),
      _score_report_contents(reports),
      _score_validity(trace_data),
      _score_line_type(trace_data),
      _score_carrier(trace_data),
      _score_porting(trace_data)>>

\* the scoring_functions list, applied in order
ScoringResults(trace_data, reports) ==
    <<_score_spam_reports(Get(trace_data, "spam_reports", PyInt(0))),
      _score_report_contents(reports),
      _score_validity(trace_data),
      _score_line_type(trace_data),
      _score_country(trace_data),
      _score_carrier(trace_data),
      _score_porting(trace_data)>>

RECURSIVE SumPoints(_)
SumPoints(results) ==
    IF results = <<>> THEN 0
    ELSE Head(results).value.points + SumPoints(Tail(results))

RECURSIVE AllMessages(_)
AllMessages(results) ==
    IF results = <<>> THEN <<>>
    ELSE Head(results).value.msgs \o AllMessages(Tail(results))

\* Clamp without its ceiling: max(0, score)
ClampFloorOnly(score) == Max(0, score)

\* max(0, min(100, score))
Clamp(score) == Max(0, Min(100, score))

\* analyze_number up to the call of the generator: the score, all the factor
\* messages, the risk level and the threat type, or the exception raised
Assess(trace_data, reports) ==
    LET results == ScoringResults(trace_data, reports)
        failed == {i \in 1..Len(results) : results[i].raised # ""}
    IN  IF failed # {} THEN Raised(results[SetMin(failed)].raised)
        ELSE
        LET score == Clamp(SumPoints(results))
            factors == AllMessages(results)
            risk_level == _determine_risk_level(score)
            threat_type == _determine_threat_type(trace_data, reports, score)
        IN  IF risk_level.raised # "" THEN Raised(risk_level.raised)
            ELSE IF threat_type.raised # "" THEN Raised(threat_type.raised)
            ELSE Returned([score |-> score,
                           factors |-> factors,
                           risk_level |-> risk_level.value,
                           threat_type |-> threat_type.value])

\* the rule-based texts analyze_number falls back to
Fallback(trace_data, a) ==
    [analysis |-> _generate_analysis(trace_data, a.factors, a.risk_level, a.score),
     recommendation |-> _generate_recommendation(a.risk_level, a.threat_type, trace_data)]

\* Assemble with the loader's last error, shared by all calls, written into
\* the rule-based analysis
AssembleWithLoaderError(a, rule, llm_result, t) ==
    LET parts == IF Truthy(llm_result) THEN Split1(llm_result.v, "\n\n") ELSE <<>>
        llm_analysis == IF Truthy(llm_result) THEN PyStr(Strip(parts[1])) ELSE PyNone
        llm_recommendation == IF Len(parts) > 1 THEN PyStr(Strip(parts[2])) ELSE PyNone
        analysis == PyOr(llm_analysis,
                         PyStr(rule.analysis \o " (AI unavailable: "
                               \o PyFormat(llm_status.error) \o ")"))
        recommendation == PyOr(llm_recommendation, PyStr(rule.recommendation))
    IN  Returned([risk_score |-> a.score,
                  risk_level |-> a.risk_level,
                  threat_type |-> a.threat_type,
                  factors |-> Take(a.factors, 6),
                  analysis |-> analysis.v,
                  recommendation |-> recommendation.v,
                  ai_source |-> IF Truthy(llm_analysis) THEN "llm" ELSE "rule-based",
                  model |-> IF Truthy(llm_analysis) THEN PyStr(MODEL_FILE) ELSE PyNone,
                  analyzed_at |-> t])

\* Assemble naming the model in every result
AssembleAlwaysNamesModel(a, rule, llm_result, t) ==
    LET parts == IF Truthy(llm_result) THEN Split1(llm_result.v, "\n\n") ELSE <<>>
        llm_analysis == IF Truthy(llm_result) THEN PyStr(Strip(parts[1])) ELSE PyNone
        llm_recommendation == IF Len(parts) > 1 THEN PyStr(Strip(parts[2])) ELSE PyNone
        analysis == PyOr(llm_analysis, PyStr(rule.analysis))
        recommendation == PyOr(llm_recommendation, PyStr(rule.recommendation))
    IN  Returned([risk_score |-> a.score,
                  risk_level |-> a.risk_level,
                  threat_type |-> a.threat_type,
                  factors |-> Take(a.factors, 6),
                  analysis |-> analysis.v,
                  recommendation |-> recommendation.v,
                  ai_source |-> IF Truthy(llm_analysis) THEN "llm" ELSE "rule-based",
                  model |-> PyStr(MODEL_FILE),
                  analyzed_at |-> t])

\* analyze_number from the generator's answer llm_result on, with the clock
\* reading t: a is the assessment and rule the rule-based texts
Assemble(a, rule, llm_result, t) ==
    LET parts == IF Truthy(llm_result) THEN Split1(llm_result.v, "\n\n") ELSE <<>>
        llm_analysis == IF Truthy(llm_result) THEN PyStr(Strip(parts[1])) ELSE PyNone
        llm_recommendation == IF Len(parts) > 1 THEN PyStr(Strip(parts[2])) ELSE PyNone
        analysis == PyOr(llm_analysis, PyStr(rule.analysis))
        recommendation == PyOr(llm_recommendation, PyStr(rule.recommendation))
    IN  Returned([risk_score |-> a.score,
                  risk_level |-> a.risk_level,
                  threat_type |-> a.threat_type,
                  factors |-> Take(a.factors, 6),
                  analysis |-> analysis.v,
                  recommendation |-> recommendation.v,
                  ai_source |-> IF Truthy(llm_analysis) THEN "llm" ELSE "rule-based",
                  model |-> IF Truthy(llm_analysis) THEN PyStr(MODEL_FILE) ELSE PyNone,
                  analyzed_at |-> t])

(***************************************************************************)
(* The chat fallback                                                       *)
(***************************************************************************)
\* each entry's patterns, and its canned response by its heading line
KNOWLEDGE_BASE ==
    <<[patterns |-> <<"scam", "how to identify", "recognize", "spot", "tell if">>,
       response |-> "**How to Identify Scam Calls:**"],
      [patterns |-> <<"voip", "virtual number", "internet number", "online number">>,
       response |-> "**About VoIP Numbers:**"],
      [patterns |-> <<"block", "how to block", "stop calls", "prevent">>,
       response |-> "**How to Block Unwanted Calls:**"],
      [patterns |-> <<"report", "how to report", "file complaint", "ftc", "fcc", "authority">>,
       response |-> "**How to Report Scam/Spam Numbers:**"],
      [patterns |-> <<"safe", "is it safe", "should i answer", "unknown number", "missed call">>,
       response |-> "**Should You Answer Unknown Numbers?**"],
      [patterns |-> <<"phishing", "sms phishing", "smishing", "text scam", "fake text">>,
       response |-> "**Phishing & SMS Scams (Smishing):**"],
      [patterns |-> <<"robocall", "automated", "robot", "recording", "press 1">>,
       response |-> "**About Robocalls:**"],
      [patterns |-> <<"caller id", "spoofing", "fake number", "disguise", "pretend">>,
       response |-> "**Caller ID Spoofing:**"],
      [patterns |-> <<"privacy", "data", "personal information", "protect", "security">>,
       response |-> "**Phone Privacy & Data Protection:**"],
      [patterns |-> <<"wangiri", "one ring", "callback scam", "international missed call">>,
       response |-> "**Wangiri (One Ring) Scam:**"],
      [patterns |-> <<"hello", "hi", "hey", "help", "what can you do", "start">>,
       response |-> "**Hello! I'm your Phone Safety AI Assistant.**"]>>

\* no default response
DefaultResponseEmpty == ""

DEFAULT_RESPONSE ==
    "I'm not sure about that specific topic, but here are some things I can help with:"

RECURSIVE PatternScore(_, _)
\* sum(len(p) for p in patterns if p in msg_lower)
PatternScore(patterns, msg_lower) ==
    IF patterns = <<>> THEN 0
    ELSE (IF Contains(msg_lower, Head(patterns)) THEN Len(Head(patterns)) ELSE 0)
         + PatternScore(Tail(patterns), msg_lower)

\* MatchLoop with the later entry winning a tie
RECURSIVE MatchLoopLastWins(_, _, _)
MatchLoopLastWins(msg_lower, i, best) ==
    IF i > Len(KNOWLEDGE_BASE) THEN best
    ELSE LET score == PatternScore(KNOWLEDGE_BASE[i].patterns, msg_lower)
         IN  IF score >= best.score
             THEN MatchLoopLastWins(msg_lower, i + 1,
                            [score |-> score, response |-> KNOWLEDGE_BASE[i].response])
             ELSE MatchLoopLastWins(msg_lower, i + 1, best)

\* the loop of _match_knowledge_base over KNOWLEDGE_BASE[i..]
RECURSIVE MatchLoop(_, _, _)
MatchLoop(msg_lower, i, best) ==
    IF i > Len(KNOWLEDGE_BASE) THEN best
    ELSE LET score == PatternScore(KNOWLEDGE_BASE[i].patterns, msg_lower)
         IN  IF score > best.score
             THEN MatchLoop(msg_lower, i + 1,
                            [score |-> score, response |-> KNOWLEDGE_BASE[i].response])
             ELSE MatchLoop(msg_lower, i + 1, best)

\* (response, confidence); the confidence min(best_score / 10, 1.0) in tenths
_match_knowledge_base(msg_lower) ==
    LET best == MatchLoop(msg_lower, 1, [score |-> 0, response |-> DEFAULT_RESPONSE])
    IN  [response |-> best.response, confidence |-> Min(best.score, 10)]

\* chat up to the call of the generator: msg_lower, or the exception raised
ChatPrepare(message) ==
    IF ~IsStr(message) THEN Raised("AttributeError")
    ELSE Returned(Strip(Lower(message.v)))

\* ChatAnswer taking generated text of 20 characters too
ChatAnswerInclusive(matched, llm_response, t) ==
    IF Truthy(llm_response) /\ Len(llm_response.v) >= 20
    THEN Returned([response |-> llm_response.v,
                   confidence |-> 9,
                   ai_source |-> "llm",
                   model |-> PyStr(MODEL_FILE),
                   timestamp |-> t])
    ELSE Returned([response |-> matched.response,
                   confidence |-> matched.confidence,
                   ai_source |-> "rule-based",
                   model |-> PyNone,
                   timestamp |-> t])

\* chat from the generator's answer llm_response on, with the clock reading t
\* and matched the knowledge-base match of msg_lower; confidence in tenths
ChatAnswer(matched, llm_response, t) ==
    IF Truthy(llm_response) /\ Len(llm_response.v) > 20
    THEN Returned([response |-> llm_response.v,
                   confidence |-> 9,
                   ai_source |-> "llm",
                   model |-> PyStr(MODEL_FILE),
                   timestamp |-> t])
    ELSE Returned([response |-> matched.response,
                   confidence |-> matched.confidence,
                   ai_source |-> "rule-based",
                   model |-> PyNone,
                   timestamp |-> t])

(***************************************************************************)
(* Inputs                                                                  *)
(***************************************************************************)
\* the longest list of distinct reports passed to analyze_number
MaxReports == 2

\* the longest list of reports passed to _determine_threat_type directly
MaxTypeReports == 2

\* the largest count passed to _score_spam_reports directly
MaxSpamCount == 12

\* the reports of the clamping test: ten copies of one report
ClampCopies == 10

EmptyTrace == <<>>

\* TestAnalyzeNumber._make_trace (the keys the core reads)
CleanTrace ==
    [formatted_international |-> PyStr("+1 415-858-6273"),
     number |-> PyStr("+14158586273"),
     valid |-> PyBool(TRUE),
     possible |-> PyBool(TRUE),
     country_code |-> PyStr("US"),
     country_name |-> PyStr("United States"),
     carrier |-> PyStr("AT&T"),
     original_carrier |-> PyStr("AT&T"),
     line_type |-> PyStr("Mobile"),
     spam_reports |-> PyInt(0)]

\* the trace of the end-to-end scenario of a clean number
ScenarioATrace ==
    [valid |-> PyBool(TRUE),
     possible |-> PyBool(TRUE),
     country_code |-> PyStr("US"),
     carrier |-> PyStr("AT&T"),
     original_carrier |-> PyStr("AT&T"),
     line_type |-> PyStr("Mobile"),
     spam_reports |-> PyInt(0)]

\* d with d[k] = v
With(d, k, v) == [x \in DOMAIN d \cup {k} |-> IF x = k THEN v ELSE d[x]]

\* d without the key k
Without(d, k) == [x \in DOMAIN d \ {k} |-> d[x]]

\* the trace of the clamping test
ClampTrace ==
    [CleanTrace EXCEPT !.spam_reports = PyInt(20),
                       !.valid = PyBool(FALSE),
                       !.line_type = PyStr("VoIP"),
                       !.country_code = PyStr("NG"),
                       !.country_name = PyStr("Nigeria"),
                       !.carrier = PyStr("Unknown")]

\* well-formed traces: every combination of the scorers' cases
ScoredTraces ==
    {[CleanTrace EXCEPT !.spam_reports = PyInt(n),
                        !.valid = PyBool(v[1]),
                        !.possible = PyBool(v[2]),
                        !.line_type = PyStr(lt),
                        !.country_code = PyStr(c[1]),
                        !.country_name = PyStr(c[2]),
                        !.carrier = PyStr(k[1]),
                        !.original_carrier = PyStr(k[2])] :
        n \in {0, 10},
        v \in {<<TRUE, TRUE>>, <<FALSE, TRUE>>, <<TRUE, FALSE>>},
        lt \in {"Mobile", "VoIP", "Premium Rate", "Landline"},
        c \in {<<"US", "United States">>, <<"NG", "Nigeria">>, <<"CN", "China">>},
        k \in {<<"AT&T", "AT&T">>, <<"Unknown", "AT&T">>, <<"Jio", "Airtel">>,
               <<"Virtual Telecom", "Virtual Telecom">>}}

TraceKeys ==
    {"formatted_international", "number", "valid", "possible", "country_code",
     "country_name", "carrier", "original_carrier", "line_type", "spam_reports"}

\* other values of a field, among them null and values of the wrong type
FieldValues(k) ==
    CASE k = "valid" -> {PyNone, PyBool(FALSE), PyInt(0)}
      [] k = "possible" -> {PyNone, PyBool(FALSE)}
      [] k = "country_code" -> {PyNone, PyStr(""), PyStr("NG"), PyInt(91)}
      [] k = "country_name" -> {PyNone, PyStr("India")}
      [] k = "carrier" ->
           {PyNone, PyStr(""), PyStr("unknown"), PyStr("Internet Calling Co"), PyInt(5)}
      [] k = "original_carrier" -> {PyNone, PyStr(""), PyStr("Airtel")}
      [] k = "line_type" ->
           {PyNone, PyStr(""), PyStr("voip"), PyStr("Toll-Free"),
            PyStr("Landline/Mobile"), PyInt(7)}
      [] k = "spam_reports" ->
           {PyNone, PyStr("3"), PyBool(TRUE), PyInt(1), PyInt(2), PyInt(5), PyInt(20)}
      [] OTHER -> {PyNone}

\* a trace with one field changed or missing, and the dicts of one key
VariedTraces ==
    {With(CleanTrace, k, v) : <<k, v>> \in
        UNION {{<<kk, vv>> : vv \in FieldValues(kk)} : kk \in TraceKeys}}
    \cup {Without(CleanTrace, k) : k \in TraceKeys}
    \cup {With(EmptyTrace, k, v) : <<k, v>> \in
        UNION {{<<kk, vv>> : vv \in FieldValues(kk)} : kk \in TraceKeys}}
    \cup {EmptyTrace, ClampTrace}

ReportPool ==
    {[type |-> PyStr("fraud"), description |-> PyStr("Tried to steal my bank account")],
     [type |-> PyStr("scam"), description |-> PyStr("Said I am a WINNER of a free prize")],
     [type |-> PyStr("Spam"), description |-> PyStr("")],
     [type |-> PyStr("other")],
     [description |-> PyStr("robot voice asking for my Password")]}

\* the sequences of at most n elements of S
RECURSIVE SeqsUpTo(_, _)
SeqsUpTo(S, n) ==
    IF n = 0 THEN {<<>>}
    ELSE LET shorter == SeqsUpTo(S, n - 1)
         IN  shorter \cup {Append(q, x) : q \in shorter, x \in S}

\* [x] * n
RECURSIVE Copies(_, _)
Copies(x, n) == IF n = 0 THEN <<>> ELSE Append(Copies(x, n - 1), x)

ClampReports ==
    Copies([type |-> PyStr("fraud"),
            description |-> PyStr("bank password ssn bitcoin ransom")], ClampCopies)

\* a report whose type is null
NullTypeReport == [type |-> PyNone, description |-> PyStr("bank")]

ReportLists == SeqsUpTo(ReportPool, MaxReports)

\* the arguments of the direct _score_report_contents calls
ContentReportLists ==
    ReportLists
    \cup {ClampReports,
          <<[type |-> PyStr("robocall"),
             description |-> PyStr("Free PASSWORD reset for your bank")]>>,
          <<[type |-> PyStr("prank"), description |-> PyStr("Just a test")]>>}

\* the arguments of the analyze_number calls
AnalyzeInputs ==
    (ScoredTraces \X {<<>>, <<[type |-> PyStr("other"),
                              description |-> PyStr("free prize offer")]>>})
    \cup ((VariedTraces \cup {ScenarioATrace}) \X {<<>>})
    \cup ({CleanTrace, ClampTrace} \X (ReportLists \cup {ClampReports, <<NullTypeReport>>}))

ThreatTypeNames ==
    {"fraud", "Phishing", "scam", "harassment", "telemarketer", "spam", "other"}

\* the arguments of the direct _determine_threat_type calls
ThreatTypeInputs ==
    {[line_type |-> PyStr("VoIP")], [line_type |-> PyStr("Premium Rate")], EmptyTrace}
    \X SeqsUpTo({[type |-> PyStr(n)] : n \in ThreatTypeNames}, MaxTypeReports)
    \X {0, 25, 30, 45}

ChatMessages ==
    {PyStr("hello"), PyStr(""), PyStr("How do I block unwanted calls?"),
     PyStr("xyzzyqwrt"), PyStr("  Is this a SCAM?  "), PyStr("What is a VoIP number?"),
     PyStr("How to report spam to FTC?"), PyNone}

\* the arguments of the direct _match_knowledge_base calls: lower-cased messages
MatchMessages ==
    {"", "xyzzyqwrt", "hi", "how do i block unwanted calls?", "how to block",
     "scam voip", "block robot", "phishing", "is it safe? should i answer",
     "report a robot to the ftc"}

\* the message contents the generator may produce
GenContents ==
    {PyNone, PyStr(""), PyStr("  Looks fine to answer\n"),
     PyStr("Looks fine to answer."),
     PyStr("This number looks risky. Avoid it.\n\nBlock the number and report it.\n")}

\* what the environment may do to a call of _llm_generate made while _llm is l
Envs(l) ==
    IF l = "None"
    THEN {[load |-> f, call |-> "not_called", content |-> PyNone] :
              f \in {"download_error", "load_error"}}
         \cup {[load |-> "ok", call |-> "raised", content |-> PyNone]}
         \cup {[load |-> "ok", call |-> "returned", content |-> c] : c \in GenContents}
    ELSE {[load |-> "cached", call |-> "raised", content |-> PyNone]}
         \cup {[load |-> "cached", call |-> "returned", content |-> c] : c \in GenContents}

\* the threads that serve requests
Threads == {"t1", "t2"}

\* a thread that serves no request
IdleThread == [pc |-> "idle"]

\* no call of _llm_generate
NoGen == [load |-> "not_called", call |-> "not_called", content |-> PyNone]

Idle == [fn |-> "idle"]

NoValue == Returned(PyNone)

(***************************************************************************)
(* The state machine: the calls made on the module, one at a time          *)
(***************************************************************************)
Init ==
    /\ llm = "None"
    /\ llm_status = [state |-> "not_loaded", error |-> PyNone, model_name |-> PyNone]
    /\ now = 0
    /\ call = Idle
    /\ ret = NoValue
    /\ gen = NoGen
    /\ first = Idle
    /\ threads = [t \in Threads |-> IdleThread]
    /\ llm_lock = "unlocked"
    /\ reports_file = <<>>
    /\ history_file = <<>>
    /\ main_pc = "popen_backend"
    /\ processes = <<>>
    /\ children = [c \in {"backend", "frontend"} |-> "not_started"]
    /\ cleanup = 0

\* the generator called while _llm is l and the status is status, the
\* environment doing env: the new _llm and status, and the text returned
Generate(l, status, env) ==
    LET loaded == _load_llm(l, status, env.load)
    IN  [llm |-> loaded.llm, status |-> loaded.status,
         text |-> _llm_generate(loaded.llm, env)]

\* a call of analyze_number(trace_data, reports) with arguments from inputs,
\* the environment treating the generator in one of the ways envs
Analyze(inputs, envs) ==
    /\ call = Idle
    /\ \E in \in inputs :
       \E a \in {Assess(in[1], in[2])} :
           /\ call' = [fn |-> "analyze_number", trace_data |-> in[1], reports |-> in[2]]
           /\ IF a.raised # ""
              THEN \* the exception leaves before the generator is asked
                   /\ ret' = a
                   /\ gen' = NoGen
                   /\ UNCHANGED <<llm, llm_status>>
              ELSE \E rule \in {Fallback(in[1], a.value)} :
                   \E env \in envs :
                   \E g \in {Generate(llm, llm_status, env)} :
                       /\ llm' = g.llm
                       /\ llm_status' = g.status
                       /\ gen' = env
                       /\ ret' = Assemble(a.value, rule, g.text, now)
    /\ UNCHANGED <<now, first, launchVars>>
    /\ UNCHANGED <<threadVars, storeVars>>

\* a call of chat(message) with a message from messages
Chat(messages, envs) ==
    /\ call = Idle
    /\ \E message \in messages :
       \E m \in {ChatPrepare(message)} :
           /\ call' = [fn |-> "chat", message |-> message]
           /\ IF m.raised # ""
              THEN /\ ret' = m
                   /\ gen' = NoGen
                   /\ UNCHANGED <<llm, llm_status>>
              ELSE \E matched \in {_match_knowledge_base(m.value)} :
                   \E env \in envs :
                   \E g \in {Generate(llm, llm_status, env)} :
                       /\ llm' = g.llm
                       /\ llm_status' = g.status
                       /\ gen' = env
                       /\ ret' = ChatAnswer(matched, g.text, now)
    /\ UNCHANGED <<now, first, launchVars>>
    /\ UNCHANGED <<threadVars, storeVars>>

\* a direct call of _score_spam_reports(spam_count), as the unit tests make
ScoreSpamReports(counts) ==
    /\ call = Idle
    /\ \E spam_count \in counts :
           /\ call' = [fn |-> "_score_spam_reports", spam_count |-> spam_count]
           /\ ret' = _score_spam_reports(spam_count)
    /\ UNCHANGED <<llm, llm_status, now, gen, first, launchVars>>
    /\ UNCHANGED <<threadVars, storeVars>>

\* a direct call of _determine_risk_level(score)
DetermineRiskLevel(scores) ==
    /\ call = Idle
    /\ \E score \in scores :
           /\ call' = [fn |-> "_determine_risk_level", score |-> score]
           /\ ret' = _determine_risk_level(score)
    /\ UNCHANGED <<llm, llm_status, now, gen, first, launchVars>>
    /\ UNCHANGED <<threadVars, storeVars>>

\* a direct call of _determine_threat_type(trace_data, reports, score)
DetermineThreatType(inputs) ==
    /\ call = Idle
    /\ \E in \in inputs :
           /\ call' = [fn |-> "_determine_threat_type", trace_data |-> in[1],
                       reports |-> in[2], score |-> in[3]]
           /\ ret' = _determine_threat_type(in[1], in[2], in[3])
    /\ UNCHANGED <<llm, llm_status, now, gen, first, launchVars>>
    /\ UNCHANGED <<threadVars, storeVars>>

\* a direct call of _score_report_contents(reports)
ScoreReportContents(lists) ==
    /\ call = Idle
    /\ \E reports \in lists :
           /\ call' = [fn |-> "_score_report_contents", reports |-> reports]
           /\ ret' = _score_report_contents(reports)
    /\ UNCHANGED <<llm, llm_status, now, gen, first, launchVars>>
    /\ UNCHANGED <<threadVars, storeVars>>

\* a direct call of _match_knowledge_base(msg_lower)
MatchKnowledgeBase(messages) ==
    /\ call = Idle
    /\ \E msg_lower \in messages :
           /\ call' = [fn |-> "_match_knowledge_base", msg_lower |-> msg_lower]
           /\ ret' = Returned(_match_knowledge_base(msg_lower))
    /\ UNCHANGED <<llm, llm_status, now, gen, first, launchVars>>
    /\ UNCHANGED <<threadVars, storeVars>>

\* the caller takes the result; the module is ready for the next call
Return ==
    /\ call # Idle
    /\ call' = Idle
    /\ ret' = NoValue
    /\ gen' = NoGen
    /\ UNCHANGED <<llm, llm_status, now, first, launchVars>>
    /\ UNCHANGED <<threadVars, storeVars>>

Next ==
    \/ Analyze(AnalyzeInputs, Envs(llm))
    \/ Chat(ChatMessages, Envs(llm))
    \/ ScoreSpamReports({PyInt(n) : n \in 0..MaxSpamCount})
    \/ DetermineRiskLevel(0..100)
    \/ DetermineThreatType(ThreatTypeInputs)
    \/ ScoreReportContents(ContentReportLists)
    \/ MatchKnowledgeBase(MatchMessages)
    \/ Return

Spec == Init /\ [][Next]_vars

(***************************************************************************)
(* The same module with the text generator permanently absent: every load  *)
(* attempt fails.  The clock advances between calls, and one earlier call  *)
(* is remembered with its result.                                          *)
(***************************************************************************)
\* the latest reading of the clock
MaxTime == 2

AbsentEnvs ==
    {[load |-> f, call |-> "not_called", content |-> PyNone] :
        f \in {"download_error", "load_error"}}

AbsentAnalyzeInputs ==
    ({CleanTrace, ClampTrace, EmptyTrace,
      With(CleanTrace, "line_type", PyStr("Landline/Mobile")),
      With(CleanTrace, "spam_reports", PyNone)}
     \X {<<>>, <<[type |-> PyStr("scam"),
                  description |-> PyStr("Said I am a WINNER of a free prize")]>>})
    \cup {<<ClampTrace, ClampReports>>}

AbsentChatMessages ==
    {PyStr("hello"), PyStr("How do I block unwanted calls?"), PyStr("xyzzyqwrt")}

Tick ==
    /\ call = Idle
    /\ now < MaxTime
    /\ now' = now + 1
    /\ UNCHANGED <<llm, llm_status, call, ret, gen, first, launchVars>>
    /\ UNCHANGED <<threadVars, storeVars>>

\* the call that has just returned is the one remembered
Remember ==
    /\ call # Idle
    /\ first = Idle
    /\ first' = [call |-> call, ret |-> ret]
    /\ UNCHANGED <<llm, llm_status, now, call, ret, gen>>
    /\ UNCHANGED <<threadVars, storeVars, launchVars>>

NextAbsent ==
    \/ Analyze(AbsentAnalyzeInputs, AbsentEnvs)
    \/ Chat(AbsentChatMessages, AbsentEnvs)
    \/ Tick
    \/ Remember
    \/ Return

SpecAbsent == Init /\ [][NextAbsent]_vars

(***************************************************************************)
(* The HTTP endpoints of backend/main.py that read and write the stored    *)
(* reports and the lookup history.  A request is a call, its response what *)
(* the handler returns or the HTTPException it raises.  Of a parsed number *)
(* the model keeps the country calling code and the national number; the   *)
(* carrier, location and time zone the library looks up are left out of    *)
(* the responses and of the history entries.                               *)
(***************************************************************************)
\* the most reports the model stores
MaxStoredReports == 2

\* the most lookups the model keeps in the history
MaxLookups == 2

\* s.startswith(prefix)
StartsWith(s, prefix) == Len(s) >= Len(prefix) /\ SubSeq(s, 1, Len(prefix)) = prefix

\* seq[-n:]
LastN(seq, n) == SubSeq(seq, Max(1, Len(seq) - n + 1), Len(seq))

\* raise HTTPException(status_code=status_code)
HTTPException(status_code) == [raised |-> "HTTPException", value |-> status_code]

\* the status of the response to a request
StatusOf(r) ==
    IF r.raised = "" THEN 200
    ELSE IF r.raised = "HTTPException" THEN r.value
    ELSE 500

\* raw = number.strip(), with "+" put before it when it has none
CleanNumber(number) ==
    LET raw == Strip(number)
    IN  IF StartsWith(raw, "+") THEN raw ELSE "+" \o raw

\* the country calling codes the model knows, with their regions
COUNTRY_CALLING_CODES == ("1" :> "US") @@ ("91" :> "IN")

IsDigit(c) == \E i \in 1..Len(Digits) : CharAt(Digits, i) = c

RECURSIVE DropPunctuation(_)
\* s without the spaces and the punctuation a written number may have
DropPunctuation(s) ==
    IF s = "" THEN ""
    ELSE IF CharAt(s, 1) \in {" ", "-", "(", ")", "."} THEN DropPunctuation(Tail(s))
    ELSE CharAt(s, 1) \o DropPunctuation(Tail(s))

\* phonenumbers.parse(raw, None) of a raw that begins with "+": the number, or
\* NumberParseException when what follows is not digits, begins with no known
\* country calling code, or leaves a national number of fewer than 2 or more
\* than 17 digits
phonenumbers_parse(raw) ==
    LET body == DropPunctuation(Tail(raw))
        codes == {n \in 1..3 : n < Len(body) /\ SubSeq(body, 1, n) \in DOMAIN COUNTRY_CALLING_CODES}
    IN  IF body = "" \/ \E i \in 1..Len(body) : ~IsDigit(CharAt(body, i))
        THEN Raised("NumberParseException")
        ELSE IF codes = {} THEN Raised("NumberParseException")
        ELSE LET n == SetMin(codes)
             IN  IF Len(body) - n < 2 \/ Len(body) - n > 17
                 THEN Raised("NumberParseException")
                 ELSE Returned([country_code |-> SubSeq(body, 1, n),
                                national_number |-> SubSeq(body, n + 1, Len(body))])

\* phonenumbers.format_number(pn, PhoneNumberFormat.E164)
E164(pn) == "+" \o pn.country_code \o pn.national_number

\* [r for r in reports if r.get("number") == normalized]
MatchingReports(reports, normalized) ==
    SelectSeq(reports, LAMBDA r : r.number = normalized)

\* report_number storing the report before it parses the number
ReportNumberStoresFirst(req, reports, t) ==
    LET raw == CleanNumber(req.number)
        pn == phonenumbers_parse(raw)
        normalized == IF pn.raised # "" THEN raw ELSE E164(pn.value)
        stored == Append(reports, [number |-> normalized, type |-> req.type,
                                   description |-> req.description, timestamp |-> t])
    IN  IF pn.raised # ""
        THEN [response |-> HTTPException(400), reports |-> stored]
        ELSE [response |-> Returned(
                  [message |-> "Report submitted successfully",
                   total_reports_for_number |-> Len(MatchingReports(stored, normalized))]),
              reports |-> stored]

\* report_number storing the new report over the reports of other numbers
ReportNumberOverwrites(req, reports, t) ==
    LET raw == CleanNumber(req.number)
        pn == phonenumbers_parse(raw)
    IN  IF pn.raised # ""
        THEN [response |-> HTTPException(400), reports |-> reports]
        ELSE LET normalized == E164(pn.value)
                 stored == Append(MatchingReports(reports, normalized),
                                  [number |-> normalized, type |-> req.type,
                                   description |-> req.description,
                                   timestamp |-> t])
             IN  [response |-> Returned(
                      [message |-> "Report submitted successfully",
                       total_reports_for_number |->
                           Len(MatchingReports(stored, normalized))]),
                  reports |-> stored]

\* POST /api/report with the body req, reports being stored and the clock
\* reading t: the response and the reports stored afterwards
report_number(req, reports, t) ==
    LET raw == CleanNumber(req.number)
        pn == phonenumbers_parse(raw)
    IN  IF pn.raised # ""
        THEN [response |-> HTTPException(400), reports |-> reports]
        ELSE LET normalized == E164(pn.value)
                 stored == Append(reports, [number |-> normalized, type |-> req.type,
                                            description |-> req.description,
                                            timestamp |-> t])
             IN  [response |-> Returned(
                      [message |-> "Report submitted successfully",
                       total_reports_for_number |->
                           Len(MatchingReports(stored, normalized))]),
                  reports |-> stored]

\* trace_number putting the new entry after the entries it finds
TraceNumberAppends(number, reports, history, t) ==
    LET raw == CleanNumber(number)
        pn == phonenumbers_parse(raw)
    IN  IF pn.raised # ""
        THEN [response |-> HTTPException(400), history |-> history]
        ELSE LET normalized == E164(pn.value)
                 matching_reports == MatchingReports(reports, normalized)
             IN  [response |-> Returned(
                      [number |-> raw,
                       e164 |-> normalized,
                       country_code |-> COUNTRY_CALLING_CODES[pn.value.country_code],
                       spam_reports |-> Len(matching_reports),
                       reports |-> LastN(matching_reports, 5)]),
                  history |-> Take(Append(history,
                                          [number |-> normalized, timestamp |-> t]), 50)]

\* GET /api/trace?number=..., reports and history being stored and the clock
\* reading t: the response and the history stored afterwards
trace_number(number, reports, history, t) ==
    LET raw == CleanNumber(number)
        pn == phonenumbers_parse(raw)
    IN  IF pn.raised # ""
        THEN [response |-> HTTPException(400), history |-> history]
        ELSE LET normalized == E164(pn.value)
                 matching_reports == MatchingReports(reports, normalized)
             IN  [response |-> Returned(
                      [number |-> raw,
                       e164 |-> normalized,
                       country_code |-> COUNTRY_CALLING_CODES[pn.value.country_code],
                       spam_reports |-> Len(matching_reports),
                       reports |-> LastN(matching_reports, 5)]),
                  history |-> Take(<<[number |-> normalized, timestamp |-> t]>>
                                   \o history, 50)]

\* GET /api/recent
recent_lookups(history) == Returned(Take(history, 20))

\* the numbers of the /api/trace requests
TraceNumbers ==
    {"+14158586273", " 1 415-858-6273 ", "+919876543210", "not-a-number", "",
     "+999123456"}

\* the bodies of the /api/report requests
ReportRequests ==
    {[number |-> n, type |-> ty, description |-> "Test"] :
        n \in {"+14158586273", "1 (415) 858-6273", "+919876543210", "invalid", "+1"},
        ty \in {"spam", "scam"}}

\* a /api/trace request
TraceNumber(numbers) ==
    /\ call = Idle
    /\ Len(history_file) < MaxLookups
    /\ \E number \in numbers :
       \E result \in {trace_number(number, reports_file, history_file, now)} :
           /\ call' = [fn |-> "trace_number", number |-> number]
           /\ ret' = result.response
           /\ history_file' = result.history
    /\ UNCHANGED <<llm, llm_status, now, gen, first, launchVars, reports_file>>
    /\ UNCHANGED threadVars

\* a /api/report request
ReportNumber(requests) ==
    /\ call = Idle
    /\ Len(reports_file) < MaxStoredReports
    /\ \E req \in requests :
       \E result \in {report_number(req, reports_file, now)} :
           /\ call' = [fn |-> "report_number", number |-> req.number,
                       type |-> req.type, description |-> req.description]
           /\ ret' = result.response
           /\ reports_file' = result.reports
    /\ UNCHANGED <<llm, llm_status, now, gen, first, launchVars, history_file>>
    /\ UNCHANGED threadVars

\* a /api/recent request
RecentLookups ==
    /\ call = Idle
    /\ call' = [fn |-> "recent_lookups"]
    /\ ret' = recent_lookups(history_file)
    /\ UNCHANGED <<llm, llm_status, now, gen, first, launchVars>>
    /\ UNCHANGED <<threadVars, storeVars>>

NextApi ==
    \/ TraceNumber(TraceNumbers)
    \/ ReportNumber(ReportRequests)
    \/ RecentLookups
    \/ Return

SpecApi == Init /\ [][NextApi]_vars

(***************************************************************************)
(* The lookup history over many requests.  The history file outlives the   *)
(* server: a process starts with the entries earlier runs have stored,     *)
(* none up to the fifty the handler keeps.  The clock reads later at each   *)
(* lookup, so that the entries can be told apart.                          *)
(***************************************************************************)
\* the history n earlier lookups have left, the latest first
OlderLookups(n) ==
    [i \in 1..n |->
        [number |-> IF i % 2 = 0 THEN "+14158586273" ELSE "+919876543210",
         timestamp |-> 0 - i]]

\* the histories the server may find when it starts
StoredHistories == {OlderLookups(n) : n \in {0, 1, 19, 20, 21, 48, 49, 50}}

InitStored ==
    /\ llm = "None"
    /\ llm_status = [state |-> "not_loaded", error |-> PyNone, model_name |-> PyNone]
    /\ now = 0
    /\ call = Idle
    /\ ret = NoValue
    /\ gen = NoGen
    /\ first = Idle
    /\ threads = [t \in Threads |-> IdleThread]
    /\ llm_lock = "unlocked"
    /\ reports_file = <<>>
    /\ history_file \in StoredHistories
    /\ main_pc = "popen_backend"
    /\ processes = <<>>
    /\ children = [c \in {"backend", "frontend"} |-> "not_started"]
    /\ cleanup = 0

\* a /api/trace request, served when the clock has moved on
Lookup(numbers) ==
    /\ call = Idle
    /\ now < MaxTime
    /\ now' = now + 1
    /\ \E number \in numbers :
       \E result \in {trace_number(number, reports_file, history_file, now')} :
           /\ call' = [fn |-> "trace_number", number |-> number]
           /\ ret' = result.response
           /\ history_file' = result.history
    /\ UNCHANGED <<llm, llm_status, gen, first, launchVars, reports_file>>
    /\ UNCHANGED threadVars

NextHistory ==
    \/ Lookup(TraceNumbers)
    \/ RecentLookups
    \/ Return

SpecHistory == InitStored /\ [][NextHistory]_vars

(***************************************************************************)
(* /api/report and /api/trace requests served by one server process.  The  *)
(* handlers are coroutines of one event loop: a handler runs until it      *)
(* awaits, and only then may another run.  report_number awaits nothing;   *)
(* trace_number awaits the live carrier lookup, after it has parsed the    *)
(* number and before it reads the stored reports.  threads holds the       *)
(* requests in flight.                                                     *)
(***************************************************************************)
\* the requests the server receives
ServerRequests ==
    {[fn |-> "report_number", number |-> n, type |-> "spam", description |-> "Test"] :
        n \in {"+14158586273", "1 (415) 858-6273", "+919876543210", "invalid"}}
    \cup {[fn |-> "trace_number", number |-> n] :
              n \in {"+14158586273", "+919876543210", "not-a-number"}}

\* a request arrives and waits for the event loop
Arrive(requests) ==
    \E t \in Threads :
        /\ threads[t].pc = "idle"
        /\ \E request \in requests :
               /\ request.fn = "report_number" => Len(reports_file) < MaxStoredReports
               /\ request.fn = "trace_number" => Len(history_file) < MaxLookups
               /\ threads' = [threads EXCEPT ![t] = [pc |-> "ready", request |-> request]]
        /\ UNCHANGED <<llm, llm_status, llm_lock, now, call, ret, gen, first, launchVars, storeVars>>

\* report_number runs from its first line to its return
ServeReport ==
    \E t \in Threads :
        /\ threads[t].pc = "ready"
        /\ threads[t].request.fn = "report_number"
        /\ \E result \in {report_number(threads[t].request, reports_file, now)} :
               /\ reports_file' = result.reports
               /\ threads' = [threads EXCEPT ![t] = [pc |-> "done",
                                                     request |-> threads[t].request,
                                                     result |-> result.response]]
        /\ UNCHANGED <<llm, llm_status, llm_lock, now, call, ret, gen, first, launchVars, history_file>>

\* trace_number runs up to its await: the number does not parse and the
\* response is 400, or the live carrier lookup is awaited
TraceStart ==
    \E t \in Threads :
        /\ threads[t].pc = "ready"
        /\ threads[t].request.fn = "trace_number"
        /\ IF phonenumbers_parse(CleanNumber(threads[t].request.number)).raised # ""
           THEN threads' = [threads EXCEPT ![t] = [pc |-> "done",
                                                   request |-> threads[t].request,
                                                   result |-> HTTPException(400)]]
           ELSE threads' = [threads EXCEPT ![t].pc = "awaiting"]
        /\ UNCHANGED <<llm, llm_status, llm_lock, now, call, ret, gen, first, launchVars, storeVars>>

\* trace_number runs on from its await to its return
TraceResume ==
    \E t \in Threads :
        /\ threads[t].pc = "awaiting"
        /\ \E result \in {trace_number(threads[t].request.number, reports_file,
                                        history_file, now)} :
               /\ history_file' = result.history
               /\ threads' = [threads EXCEPT ![t] = [pc |-> "done",
                                                     request |-> threads[t].request,
                                                     result |-> result.response]]
        /\ UNCHANGED <<llm, llm_status, llm_lock, now, call, ret, gen, first, launchVars, reports_file>>

\* the response is sent
Respond ==
    \E t \in Threads :
        /\ threads[t].pc = "done"
        /\ threads' = [threads EXCEPT ![t] = IdleThread]
        /\ UNCHANGED <<llm, llm_status, llm_lock, now, call, ret, gen, first, launchVars, storeVars>>

NextServer ==
    \/ Arrive(ServerRequests)
    \/ ServeReport
    \/ TraceStart
    \/ TraceResume
    \/ Respond

SpecServer == Init /\ [][NextServer]_vars

(***************************************************************************)
(* Requests served concurrently.  Each thread runs analyze_number or chat  *)
(* on its own arguments with its own local variables; the threads share    *)
(* _llm, _llm_status and _llm_lock.  A step is what a thread does between  *)
(* two points at which another thread may run and see a difference: the    *)
(* computation on its locals, taking the lock, each assignment to          *)
(* _llm_status under the lock, the completion, the assembly of the result. *)
(***************************************************************************)
\* the requests served concurrently
ConcurrentRequests ==
    {[fn |-> "analyze_number", trace_data |-> CleanTrace, reports |-> <<>>],
     [fn |-> "analyze_number", trace_data |-> ClampTrace, reports |-> ClampReports],
     [fn |-> "analyze_number", trace_data |-> With(CleanTrace, "spam_reports", PyNone),
      reports |-> <<>>],
     [fn |-> "chat", message |-> PyStr("How do I block unwanted calls?")]}

\* the thread t with the locals of the other threads that run the same
\* function overwritten by its own, as if they were kept in one place
SetThreadShared(ths, t, thread) ==
    [u \in DOMAIN ths |->
        IF u = t THEN thread
        ELSE IF /\ "locals" \in DOMAIN thread
                /\ "locals" \in DOMAIN ths[u]
                /\ ths[u].request.fn = thread.request.fn
        THEN [ths[u] EXCEPT !.locals = thread.locals]
        ELSE ths[u]]

\* the thread t given a new state: its request, its locals, its result
SetThread(ths, t, thread) == [ths EXCEPT ![t] = thread]

\* a request up to its call of _llm_generate, run on the thread's locals
Started(request) ==
    IF request.fn = "analyze_number"
    THEN LET a == Assess(request.trace_data, request.reports)
         IN  IF a.raised # ""
             THEN [pc |-> "done", request |-> request, result |-> a]
             ELSE [pc |-> "load", request |-> request, locals |-> a.value]
    ELSE LET m == ChatPrepare(request.message)
         IN  IF m.raised # ""
             THEN [pc |-> "done", request |-> request, result |-> m]
             ELSE [pc |-> "load", request |-> request, locals |-> [msg_lower |-> m.value]]

\* a request from the answer of _llm_generate on
Finished(thread, t) ==
    IF thread.request.fn = "analyze_number"
    THEN Assemble(thread.locals,
                  Fallback(thread.request.trace_data, thread.locals),
                  thread.text, t)
    ELSE ChatAnswer(_match_knowledge_base(thread.locals.msg_lower), thread.text, t)

\* a thread takes a request and runs it up to the call of _llm_generate
BeginRequest(requests) ==
    \E t \in Threads :
        /\ threads[t].pc = "idle"
        /\ \E request \in requests :
               threads' = SetThread(threads, t, Started(request))
        /\ UNCHANGED <<llm, llm_status, llm_lock>>
        /\ UNCHANGED <<now, call, ret, gen, first, launchVars, storeVars>>

\* AcquireLock entering whether or not another thread holds the lock
AcquireLockUnguarded ==
    \E t \in Threads :
        /\ threads[t].pc = "load"
        /\ llm_lock' = t
        /\ threads' = [threads EXCEPT ![t].pc = "locked"]
        /\ UNCHANGED <<llm, llm_status>>
        /\ UNCHANGED <<now, call, ret, gen, first, launchVars, storeVars>>

\* with _llm_lock
AcquireLock ==
    \E t \in Threads :
        /\ threads[t].pc = "load"
        /\ llm_lock = "unlocked"
        /\ llm_lock' = t
        /\ threads' = [threads EXCEPT ![t].pc = "locked"]
        /\ UNCHANGED <<llm, llm_status>>
        /\ UNCHANGED <<now, call, ret, gen, first, launchVars, storeVars>>

\* _load_llm finds _llm set and returns it
LoadCached ==
    \E t \in Threads :
        /\ threads[t].pc = "locked"
        /\ llm # "None"
        /\ llm_lock' = "unlocked"
        /\ threads' = [threads EXCEPT ![t].pc = "generate"]
        /\ UNCHANGED <<llm, llm_status>>
        /\ UNCHANGED <<now, call, ret, gen, first, launchVars, storeVars>>

\* _load_llm finds _llm unset: the download begins when the model file is
\* missing, the load when it is there
BeginLoad ==
    \E t \in Threads :
        /\ threads[t].pc = "locked"
        /\ llm = "None"
        /\ \E next \in {"downloading", "loading"} :
               /\ llm_status' = [llm_status EXCEPT !.state = next]
               /\ threads' = [threads EXCEPT ![t].pc = next]
        /\ UNCHANGED <<llm, llm_lock>>
        /\ UNCHANGED <<now, call, ret, gen, first, launchVars, storeVars>>

\* the thread t leaves _load_llm with the exception a failed load raises
\* caught: _llm_generate returns None
LoadFails(t, load) ==
    /\ llm_status' = _load_llm(llm, llm_status, load).status
    /\ llm_lock' = "unlocked"
    /\ threads' = [threads EXCEPT ![t] = [pc |-> "assemble",
                                          request |-> threads[t].request,
                                          locals |-> threads[t].locals,
                                          text |-> PyNone]]
    /\ UNCHANGED llm

\* the download ends: it raises, or the load begins
DownloadEnds ==
    \E t \in Threads :
        /\ threads[t].pc = "downloading"
        /\ \/ LoadFails(t, "download_error")
           \/ /\ llm_status' = [llm_status EXCEPT !.state = "loading"]
              /\ threads' = [threads EXCEPT ![t].pc = "loading"]
              /\ UNCHANGED <<llm, llm_lock>>
        /\ UNCHANGED <<now, call, ret, gen, first, launchVars, storeVars>>

\* the construction of the model ends: it raises, or _llm is set
ConstructModel ==
    \E t \in Threads :
        /\ threads[t].pc = "loading"
        /\ \/ LoadFails(t, "load_error")
           \/ \E loaded \in {_load_llm(llm, llm_status, "ok")} :
                  /\ llm' = loaded.llm
                  /\ llm_status' = loaded.status
                  /\ llm_lock' = "unlocked"
                  /\ threads' = [threads EXCEPT ![t].pc = "generate"]
        /\ UNCHANGED <<now, call, ret, gen, first, launchVars, storeVars>>

\* the completion, outside the lock
GenerateText(envs) ==
    \E t \in Threads :
        /\ threads[t].pc = "generate"
        /\ \E env \in envs :
               threads' = [threads EXCEPT ![t] = [pc |-> "assemble",
                                                  request |-> threads[t].request,
                                                  locals |-> threads[t].locals,
                                                  text |-> _llm_generate(llm, env)]]
        /\ UNCHANGED <<llm, llm_status, llm_lock>>
        /\ UNCHANGED <<now, call, ret, gen, first, launchVars, storeVars>>

\* the thread assembles its result and returns it
FinishRequest ==
    \E t \in Threads :
        /\ threads[t].pc = "assemble"
        /\ threads' = SetThread(threads, t,
                          [pc |-> "done",
                           request |-> threads[t].request,
                           result |-> Finished(threads[t], now)])
        /\ UNCHANGED <<llm, llm_status, llm_lock>>
        /\ UNCHANGED <<now, call, ret, gen, first, launchVars, storeVars>>

\* the caller has the result; the thread is free
ReturnResult ==
    \E t \in Threads :
        /\ threads[t].pc = "done"
        /\ threads' = [threads EXCEPT ![t] = IdleThread]
        /\ UNCHANGED <<llm, llm_status, llm_lock>>
        /\ UNCHANGED <<now, call, ret, gen, first, launchVars, storeVars>>

NextConcurrent ==
    \/ BeginRequest(ConcurrentRequests)
    \/ AcquireLock
    \/ LoadCached
    \/ BeginLoad
    \/ DownloadEnds
    \/ ConstructModel
    \/ GenerateText(Envs("Llama"))
    \/ FinishRequest
    \/ ReturnResult

SpecConcurrent == Init /\ [][NextConcurrent]_vars

(***************************************************************************)
(* The scorers called directly, as the unit tests call them, next to       *)
(* analyze_number                                                          *)
(***************************************************************************)
\* the line-type labels of the direct _score_line_type calls
LineTypeLabels ==
    {"VoIP", "voip", "VOIP", "Premium Rate", "Toll-Free", "toll-free", "Landline",
     "Landline/Mobile", "Fixed LANDLINE", "VoIP landline", "Mobile", "voip ", ""}

\* generated texts with several blank lines, with white space before the
\* blank line, and with line breaks but no blank line
SplitContents ==
    {PyStr("Risky. \n\nBlock it.\n\nReport it."),
     PyStr("Seems safe.\nAnswer with care.")}

\* the generator answering a call made while _llm is l with one of SplitContents
SplitEnvs(l) ==
    {[load |-> IF l = "None" THEN "ok" ELSE "cached", call |-> "returned",
      content |-> c] : c \in SplitContents}

\* the traces of the direct scorer calls
ScorerTraces ==
    VariedTraces
    \cup {[line_type |-> PyStr(l)] : l \in LineTypeLabels}
    \cup {With(CleanTrace, "line_type", PyStr(l)) : l \in LineTypeLabels}

\* a direct call of _score_validity(trace_data)
ScoreValidity(traces) ==
    /\ call = Idle
    /\ \E trace_data \in traces :
           /\ call' = [fn |-> "_score_validity", trace_data |-> trace_data]
           /\ ret' = _score_validity(trace_data)
    /\ UNCHANGED <<llm, llm_status, now, gen, first, launchVars>>
    /\ UNCHANGED <<threadVars, storeVars>>

\* a direct call of _score_line_type(trace_data)
ScoreLineType(traces) ==
    /\ call = Idle
    /\ \E trace_data \in traces :
           /\ call' = [fn |-> "_score_line_type", trace_data |-> trace_data]
           /\ ret' = _score_line_type(trace_data)
    /\ UNCHANGED <<llm, llm_status, now, gen, first, launchVars>>
    /\ UNCHANGED <<threadVars, storeVars>>

\* a direct call of _score_country(trace_data)
ScoreCountry(traces) ==
    /\ call = Idle
    /\ \E trace_data \in traces :
           /\ call' = [fn |-> "_score_country", trace_data |-> trace_data]
           /\ ret' = _score_country(trace_data)
    /\ UNCHANGED <<llm, llm_status, now, gen, first, launchVars>>
    /\ UNCHANGED <<threadVars, storeVars>>

\* a direct call of _score_carrier(trace_data)
ScoreCarrier(traces) ==
    /\ call = Idle
    /\ \E trace_data \in traces :
           /\ call' = [fn |-> "_score_carrier", trace_data |-> trace_data]
           /\ ret' = _score_carrier(trace_data)
    /\ UNCHANGED <<llm, llm_status, now, gen, first, launchVars>>
    /\ UNCHANGED <<threadVars, storeVars>>

\* a direct call of _score_porting(trace_data)
ScorePorting(traces) ==
    /\ call = Idle
    /\ \E trace_data \in traces :
           /\ call' = [fn |-> "_score_porting", trace_data |-> trace_data]
           /\ ret' = _score_porting(trace_data)
    /\ UNCHANGED <<llm, llm_status, now, gen, first, launchVars>>
    /\ UNCHANGED <<threadVars, storeVars>>

NextScorers ==
    \/ ScoreSpamReports({PyInt(n) : n \in 0..MaxSpamCount})
    \/ ScoreReportContents(ContentReportLists)
    \/ ScoreValidity(ScorerTraces)
    \/ ScoreLineType(ScorerTraces)
    \/ ScoreCountry(ScorerTraces)
    \/ ScoreCarrier(ScorerTraces)
    \/ ScorePorting(ScorerTraces)
    \/ Analyze(AnalyzeInputs, Envs(llm) \cup SplitEnvs(llm))
    \/ Return

SpecScorers == Init /\ [][NextScorers]_vars

(***************************************************************************)
(* The launcher run_app.py.  main starts the backend and the frontend as   *)
(* child processes, waits until one of them has exited or Ctrl+C is        *)
(* pressed, and stops them in its finally block.  A child is "not_started",*)
(* "running", "signalled" (asked to terminate and still running), "exited" *)
(* or "killed".  main_pc names the statement main is at; KeyboardInterrupt *)
(* is raised between any two of them.  main ends "returned" when its       *)
(* finally block has run to its end, or "interrupted" when                 *)
(* KeyboardInterrupt has cut the finally block short.  Popen is taken to   *)
(* succeed.                                                                *)
(***************************************************************************)
\* where main goes when it has dealt with the processes before position i
CleanupFrom(i) == IF i <= Len(processes) THEN "terminate" ELSE "returned"

\* subprocess.Popen(...) starts the child
Popen(child) ==
    /\ main_pc = "popen_" \o child
    /\ children' = [children EXCEPT ![child] = "running"]
    /\ main_pc' = "append_" \o child
    /\ UNCHANGED <<processes, cleanup, backendVars>>

\* processes.append(child)
ProcessesAppend(child) ==
    /\ main_pc = "append_" \o child
    /\ processes' = Append(processes, child)
    /\ main_pc' = IF child = "backend" THEN "sleep" ELSE "wait_loop"
    /\ UNCHANGED <<children, cleanup, backendVars>>

\* time.sleep(1) is over: the one between the two starts, or the one in the
\* wait loop
Sleep ==
    /\ main_pc \in {"sleep", "loop_sleep"}
    /\ main_pc' = IF main_pc = "sleep" THEN "popen_frontend" ELSE "wait_loop"
    /\ UNCHANGED <<processes, children, cleanup, backendVars>>

\* while all(p.poll() is None for p in processes): every child runs and the
\* loop sleeps, or a child has exited and the loop ends
Poll ==
    /\ main_pc = "wait_loop"
    /\ IF \A i \in 1..Len(processes) : children[processes[i]] = "running"
       THEN /\ main_pc' = "loop_sleep"
            /\ UNCHANGED cleanup
       ELSE /\ cleanup' = 1
            /\ main_pc' = CleanupFrom(1)
    /\ UNCHANGED <<processes, children, backendVars>>

\* Ctrl+C: inside the try block the except clause catches it; inside the
\* except clause it is raised again once the finally block has run; inside
\* the finally block nothing catches it and it leaves main at once
KeyboardInterrupt ==
    /\ main_pc \notin {"returned", "interrupted"}
    /\ IF main_pc \in {"terminate", "wait", "kill"}
       THEN /\ main_pc' = "interrupted"
            /\ UNCHANGED cleanup
       ELSE IF main_pc = "except"
       THEN /\ cleanup' = 1
            /\ main_pc' = CleanupFrom(1)
       ELSE /\ main_pc' = "except"
            /\ UNCHANGED cleanup
    /\ UNCHANGED <<processes, children, backendVars>>

\* except KeyboardInterrupt: the message is printed and the finally block begins
ShuttingDown ==
    /\ main_pc = "except"
    /\ cleanup' = 1
    /\ main_pc' = CleanupFrom(1)
    /\ UNCHANGED <<processes, children, backendVars>>

\* p.terminate() or p.send_signal(CTRL_BREAK_EVENT): the child is signalled,
\* or the call raises and the except clause is entered
Terminate ==
    /\ main_pc = "terminate"
    /\ \E p \in {processes[cleanup]} :
           \/ /\ children' = [children EXCEPT ![p] =
                                 IF @ = "running" THEN "signalled" ELSE @]
              /\ main_pc' = "wait"
           \/ /\ main_pc' = "kill"
              /\ UNCHANGED children
    /\ UNCHANGED <<processes, cleanup, backendVars>>

\* p.wait(timeout=5): the child has exited and the loop goes on, or
\* TimeoutExpired is raised and the except clause is entered
Wait ==
    /\ main_pc = "wait"
    /\ IF children[processes[cleanup]] \in {"running", "signalled"}
       THEN /\ main_pc' = "kill"
            /\ UNCHANGED cleanup
       ELSE /\ cleanup' = cleanup + 1
            /\ main_pc' = CleanupFrom(cleanup + 1)
    /\ UNCHANGED <<processes, children, backendVars>>

\* except Exception: p.kill()
Kill ==
    /\ main_pc = "kill"
    /\ \E p \in {processes[cleanup]} :
           children' = [children EXCEPT ![p] =
                           IF @ \in {"running", "signalled"} THEN "killed" ELSE @]
    /\ cleanup' = cleanup + 1
    /\ main_pc' = CleanupFrom(cleanup + 1)
    /\ UNCHANGED <<processes, backendVars>>

\* a child exits: on its own, on Ctrl+C, or on the signal it was sent
ChildExits(child) ==
    /\ children[child] \in {"running", "signalled"}
    /\ children' = [children EXCEPT ![child] = "exited"]
    /\ UNCHANGED <<main_pc, processes, cleanup, backendVars>>

NextLauncher ==
    \/ Popen("backend")
    \/ ProcessesAppend("backend")
    \/ Sleep
    \/ Popen("frontend")
    \/ ProcessesAppend("frontend")
    \/ Poll
    \/ KeyboardInterrupt
    \/ ShuttingDown
    \/ Terminate
    \/ Wait
    \/ Kill
    \/ ChildExits("backend")
    \/ ChildExits("frontend")

SpecLauncher == Init /\ [][NextLauncher]_vars

(***************************************************************************)
(* Properties                                                              *)
(***************************************************************************)
\* the call that has just been made is analyze_number and it returned
AnalyzeReturned == call.fn = "analyze_number" /\ ret.raised = ""

\* the points of the seven scorers on the arguments of the call, summed
PointsSum ==
    _score_spam_reports(Get(call.trace_data, "spam_reports", PyInt(0))).value.points
    + _score_report_contents(call.reports).value.points
    + _score_validity(call.trace_data).value.points
    + _score_line_type(call.trace_data).value.points
    + _score_country(call.trace_data).value.points
    + _score_carrier(call.trace_data).value.points
    + _score_porting(call.trace_data).value.points

\* C1: the risk_score analyze_number returns is an integer from 0 to 100,
\* whatever the factor points sum to.
C1_ScoreInRange ==
    AnalyzeReturned => ret.value.risk_score \in 0..100

\* an analysis whose factor points sum above 100
C1_Witness ==
    /\ AnalyzeReturned
    /\ PointsSum > 100
    /\ ret.value.risk_score = 100

\* C2: risk_score is max(0, min(100, S)), S the sum of the points of the seven
\* scorers; the trace and the ten reports of the clamping test give exactly 100.
C2_ScoreIsClampedSum ==
    AnalyzeReturned =>
        /\ \A S \in {PointsSum} :
               ret.value.risk_score = (IF S < 0 THEN 0 ELSE IF S > 100 THEN 100 ELSE S)
        /\ (call.trace_data = ClampTrace /\ call.reports = ClampReports
                => ret.value.risk_score = 100)

\* the clamping test's call, whose points sum to 160
C2_Witness ==
    /\ AnalyzeReturned
    /\ call.trace_data = ClampTrace
    /\ call.reports = ClampReports
    /\ PointsSum = 160
    /\ ret.value.risk_score = 100

\* the risk level of a score, by the intervals of the claim
LevelOf(score) ==
    CASE score >= 70 -> "Critical"
      [] score \in 45..69 -> "High"
      [] score \in 25..44 -> "Medium"
      [] score <= 24 -> "Low"

\* C3: the risk level of every score from 0 to 100 is Critical from 70, High
\* from 45 to 69, Medium from 25 to 44 and Low up to 24, and the risk_level
\* analyze_number returns is that of the risk_score it returns.
C3_RiskLevel ==
    /\ call.fn = "_determine_risk_level" => ret = Returned(LevelOf(call.score))
    /\ AnalyzeReturned => ret.value.risk_level = LevelOf(ret.value.risk_score)

\* an analysis that scores exactly 70
C3_Witness ==
    /\ AnalyzeReturned
    /\ ret.value.risk_score = 70
    /\ ret.value.risk_level = "Critical"

\* the lower-cased types of the reports that have one
TypesPresent(reports) ==
    {Lower(reports[i].type.v) : i \in {j \in 1..Len(reports) : "type" \in DOMAIN reports[j]}}

\* the label the report types decide, "" when they decide none
LabelOf(types) ==
    IF types \cap {"fraud", "phishing"} # {} THEN "Fraud / Phishing"
    ELSE IF "scam" \in types THEN "Scam"
    ELSE IF "harassment" \in types THEN "Harassment"
    ELSE IF types \cap {"robocall", "telemarketer"} # {} THEN "Telemarketing"
    ELSE IF "spam" \in types THEN "Spam"
    ELSE ""

\* the call that has just been made decided a threat type: the type, "" otherwise
ThreatTypeDecided ==
    IF ret.raised # "" THEN ""
    ELSE IF call.fn = "_determine_threat_type" THEN ret.value
    ELSE IF call.fn = "analyze_number" THEN ret.value.threat_type
    ELSE ""

\* C4: when a report type, lower-cased, is in a rule, the threat type is the
\* label of the first rule that a report type is in, whatever the order of the
\* reports, the line type and the score.
C4_ReportTypeRules ==
    ThreatTypeDecided # "" =>
        \A label \in {LabelOf(TypesPresent(call.reports))} :
            label # "" => ThreatTypeDecided = label

\* a scam report followed by a fraud report, on a VoIP line
C4_Witness ==
    /\ call.fn = "_determine_threat_type"
    /\ call.reports = <<[type |-> PyStr("scam")], [type |-> PyStr("fraud")]>>
    /\ call.trace_data = [line_type |-> PyStr("VoIP")]
    /\ ret = Returned("Fraud / Phishing")

\* the score the threat type was decided on
ScoreDecidedOn ==
    IF call.fn = "analyze_number" THEN ret.value.risk_score ELSE call.score

\* the lower-cased line type of the call's trace, "" when it has none
LineTypeLower ==
    IF "line_type" \in DOMAIN call.trace_data /\ IsStr(call.trace_data.line_type)
    THEN Lower(call.trace_data.line_type.v) ELSE ""

\* C5: when no report type is in a rule, the threat type is Suspicious VoIP on
\* a VoIP line with a score of 30 or more, else Premium Rate on a premium rate
\* line, else Suspicious from 45, Potentially Unwanted from 25, else Clean.
C5_Heuristics ==
    (ThreatTypeDecided # "" /\ LabelOf(TypesPresent(call.reports)) = "")
        => ThreatTypeDecided =
               (IF LineTypeLower = "voip" /\ ScoreDecidedOn >= 30 THEN "Suspicious VoIP"
                ELSE IF LineTypeLower = "premium rate" THEN "Premium Rate"
                ELSE IF ScoreDecidedOn >= 45 THEN "Suspicious"
                ELSE IF ScoreDecidedOn >= 25 THEN "Potentially Unwanted"
                ELSE "Clean")

\* an analysis of a line that is not VoIP, with one report of an unrecognised
\* type, that scores 45 or more
C5_Witness ==
    /\ AnalyzeReturned
    /\ call.reports # <<>>
    /\ LabelOf(TypesPresent(call.reports)) = ""
    /\ LineTypeLower = "mobile"
    /\ ret.value.risk_score >= 45
    /\ ret.value.threat_type = "Suspicious"

\* the messages of the seven scorers on the arguments of the call, in order
MessagesInOrder ==
    _score_spam_reports(Get(call.trace_data, "spam_reports", PyInt(0))).value.msgs
    \o _score_report_contents(call.reports).value.msgs
    \o _score_validity(call.trace_data).value.msgs
    \o _score_line_type(call.trace_data).value.msgs
    \o _score_country(call.trace_data).value.msgs
    \o _score_carrier(call.trace_data).value.msgs
    \o _score_porting(call.trace_data).value.msgs

\* C6: the factors analyze_number returns are the first min(6, n) of the n
\* messages of the scorers, taken in the order spam volume, report content,
\* validity, line type, country, carrier, porting.
C6_Factors ==
    AnalyzeReturned =>
        \A msgs \in {MessagesInOrder} :
            /\ Len(ret.value.factors) <= 6
            /\ Len(ret.value.factors) = (IF Len(msgs) < 6 THEN Len(msgs) ELSE 6)
            /\ \A i \in 1..Len(ret.value.factors) : ret.value.factors[i] = msgs[i]

\* an analysis with more than six messages
C6_Witness ==
    /\ AnalyzeReturned
    /\ Len(MessagesInOrder) > 6
    /\ Len(ret.value.factors) = 6

\* the points of a report count, by the table of the claim
SpamPointsOf(c) ==
    CASE c = 0 -> 0
      [] c = 1 -> 8
      [] c \in 2..4 -> 15
      [] c \in 5..9 -> 25
      [] c >= 10 -> 35

\* C7: the spam-volume scorer gives 0 points for no report, 8 for 1, 15 for 2
\* to 4, 25 for 5 to 9 and 35 from 10; no fewer points than for a smaller count;
\* no message for no report and otherwise one message, which has the count in it.
C7_SpamVolume ==
    call.fn = "_score_spam_reports" =>
        LET c == call.spam_count.v
        IN  /\ ret.raised = ""
            /\ ret.value.points = SpamPointsOf(c)
            /\ \A b \in 0..c :
                   _score_spam_reports(PyInt(b)).value.points <= ret.value.points
            /\ c = 0 => ret.value.msgs = <<>>
            /\ c > 0 => /\ Len(ret.value.msgs) = 1
                        /\ Contains(ret.value.msgs[1], IntStr(c))

\* the scorer called with a count of 10
C7_Witness ==
    /\ call.fn = "_score_spam_reports"
    /\ call.spam_count = PyInt(10)
    /\ ret = Factor(35, <<"Extremely high report volume (10 reports)">>)

\* the generator was asked for text during the call and gave none
GeneratorFailed ==
    \/ gen.load \in {"download_error", "load_error"}
    \/ gen.call = "raised"
    \/ gen.call = "returned" /\ gen.content \in {PyNone, PyStr("")}

\* C8: when the generator is unavailable, fails to load, raises or returns
\* nothing, analyze_number and chat return, with the rule-based texts,
\* ai_source "rule-based" and no model.  (A call that raises on its arguments
\* does so before the generator is asked: C10 is about those.)
C8_Fallback ==
    GeneratorFailed =>
        /\ call.fn \in {"analyze_number", "chat"}
        /\ ret.raised = ""
        /\ ret.value.ai_source = "rule-based"
        /\ ret.value.model = PyNone
        /\ call.fn = "analyze_number" =>
               /\ ret.value.analysis =
                      _generate_analysis(call.trace_data, ret.value.factors,
                                         ret.value.risk_level, ret.value.risk_score)
               /\ ret.value.recommendation = RECOMMENDATIONS[ret.value.risk_level]
               /\ DOMAIN ret.value =
                      {"risk_score", "risk_level", "threat_type", "factors", "analysis",
                       "recommendation", "ai_source", "model", "analyzed_at"}
        /\ call.fn = "chat" =>
               /\ \A matched \in {_match_knowledge_base(Strip(Lower(call.message.v)))} :
                      /\ ret.value.response = matched.response
                      /\ ret.value.confidence = matched.confidence
               /\ DOMAIN ret.value =
                      {"response", "confidence", "ai_source", "model", "timestamp"}

\* an analysis during which the generator, loaded, raised
C8_Witness ==
    /\ AnalyzeReturned
    /\ gen.call = "raised"
    /\ llm = "Llama"
    /\ ret.value.ai_source = "rule-based"

\* a result without the time it was made at
Untimed(r) ==
    IF r.raised # "" THEN r
    ELSE [k \in DOMAIN r.value \ {"analyzed_at", "timestamp"} |-> r.value[k]]

\* C9: with the generator absent, a call of analyze_number or chat with the
\* arguments of an earlier call returns what that call returned, the time apart.
C9_Deterministic ==
    (first # Idle /\ call = first.call) => Untimed(ret) = Untimed(first.ret)

\* a second analysis with the arguments of the remembered one, made later and
\* after the loader had failed
C9_Witness ==
    /\ first # Idle
    /\ call = first.call
    /\ AnalyzeReturned
    /\ ret.value.analyzed_at > first.ret.value.analyzed_at
    /\ gen # NoGen

\* the reports are report-like records: a type and a description, when
\* present, are strings
ReportLike(reports) ==
    \A i \in 1..Len(reports) :
        \A k \in DOMAIN reports[i] : IsStr(reports[i][k])

\* C10: analyze_number returns a result for every trace_data, whichever of its
\* fields are missing, null or otherwise malformed.
C10_ToleratesMalformedTrace ==
    (call.fn = "analyze_number" /\ ReportLike(call.reports)) => ret.raised = ""

\* a chat call with a string for message
ChatCalled == call.fn = "chat" /\ IsStr(call.message)

\* C11: chat returns a response that is not the empty string, for every
\* message (the empty one and those no knowledge entry matches among them) and
\* whatever the generator does.
C11_ChatResponseNonEmpty ==
    ChatCalled => (ret.raised = "" /\ ret.value.response # "")

\* the empty message, answered while the generator returns the empty text
C11_Witness ==
    /\ ChatCalled
    /\ call.message = PyStr("")
    /\ gen.call = "returned"
    /\ gen.content = PyStr("")
    /\ ret.raised = ""
    /\ ret.value.response = DEFAULT_RESPONSE

\* the text the generator gave the call, "" when it gave none
GeneratedText ==
    IF gen.call = "returned" /\ IsStr(gen.content) THEN Strip(gen.content.v) ELSE ""

\* C12: chat answers with the generator's output, ai_source "llm" and
\* confidence 0.9, exactly when that output is longer than 20 characters;
\* otherwise the response and the confidence are those of the knowledge-base
\* matcher on the lower-cased message.
C12_ChatThreshold ==
    ChatCalled =>
        /\ ret.raised = ""
        /\ (ret.value.ai_source = "llm") = (Len(GeneratedText) > 20)
        /\ Len(GeneratedText) > 20 =>
               /\ ret.value.response = GeneratedText
               /\ ret.value.confidence = 9
        /\ Len(GeneratedText) <= 20 =>
               \A matched \in {_match_knowledge_base(Lower(call.message.v))} :
                   /\ ret.value.response = matched.response
                   /\ ret.value.confidence = matched.confidence

\* generated text of exactly 20 characters, not used
C12_Witness ==
    /\ ChatCalled
    /\ Len(GeneratedText) = 20
    /\ ret.value.ai_source = "rule-based"
    /\ ret.value.confidence > 0

\* generated text of exactly 21 characters, used
C12_WitnessUsed ==
    /\ ChatCalled
    /\ Len(GeneratedText) = 21
    /\ ret.value.ai_source = "llm"

RECURSIVE SumOfLengths(_)
\* the sum of the lengths of the strings of a set
SumOfLengths(S) ==
    IF S = {} THEN 0
    ELSE LET x == CHOOSE y \in S : TRUE IN Len(x) + SumOfLengths(S \ {x})

\* the score of the knowledge entry i on msg: the lengths of its trigger
\* keywords that occur in msg, summed
EntryScore(i, msg) ==
    SumOfLengths({KNOWLEDGE_BASE[i].patterns[k] :
                      k \in {j \in 1..Len(KNOWLEDGE_BASE[i].patterns) :
                                 Contains(msg, KNOWLEDGE_BASE[i].patterns[j])}})

\* the earliest entry among those with the highest score
BestEntry(msg) ==
    CHOOSE i \in 1..Len(KNOWLEDGE_BASE) :
        /\ \A j \in 1..Len(KNOWLEDGE_BASE) : EntryScore(j, msg) <= EntryScore(i, msg)
        /\ \A j \in 1..(i - 1) : EntryScore(j, msg) < EntryScore(i, msg)

\* C13: the matcher returns the response of the entry with the highest score,
\* the earliest one on a tie, with confidence min(score/10, 1.0), and the
\* default response with confidence 0 when no entry scores above 0; the
\* confidence is from 0 to 1 and is above 0 exactly when the response is an
\* entry's.  (Confidences are counted in tenths.)
C13_Matcher ==
    call.fn = "_match_knowledge_base" =>
        \A best \in {BestEntry(call.msg_lower)} :
        \A score \in {EntryScore(best, call.msg_lower)} :
            /\ ret.raised = ""
            /\ score > 0 =>
                   /\ ret.value.response = KNOWLEDGE_BASE[best].response
                   /\ ret.value.confidence = (IF score < 10 THEN score ELSE 10)
            /\ score = 0 =>
                   /\ ret.value.response = DEFAULT_RESPONSE
                   /\ ret.value.confidence = 0
            /\ ret.value.confidence \in 0..10
            /\ (ret.value.confidence > 0) = (ret.value.response # DEFAULT_RESPONSE)

\* a message on which two entries score 4 each: the earlier one is returned
C13_Witness ==
    /\ call.fn = "_match_knowledge_base"
    /\ call.msg_lower = "scam voip"
    /\ EntryScore(1, call.msg_lower) = 4
    /\ EntryScore(2, call.msg_lower) = 4
    /\ ret.value.response = KNOWLEDGE_BASE[1].response
    /\ ret.value.confidence = 4

\* the rule-based analysis of the call that has returned
RuleAnalysis ==
    _generate_analysis(call.trace_data, ret.value.factors, ret.value.risk_level,
                       ret.value.risk_score)

\* C14: analyze_number uses generated text only when it is not empty and is
\* above a minimal length; generated text that is absent, empty or short (here:
\* of at most the 20 characters below which chat rejects it) leaves the
\* analysis and the recommendation rule-based.
C14_ShortTextFallsBack ==
    (AnalyzeReturned /\ Len(GeneratedText) <= 20) =>
        /\ ret.value.ai_source = "rule-based"
        /\ ret.value.analysis = RuleAnalysis
        /\ ret.value.recommendation = RECOMMENDATIONS[ret.value.risk_level]

\* the analysis portion of the generated text: what precedes its first blank line
GeneratedAnalysis == Strip(Split1(GeneratedText, "\n\n")[1])

\* C15: in a result of analyze_number ai_source is "llm" exactly when the
\* analysis is generated text and "rule-based" exactly when it is the
\* rule-based narrative, and model is the model identifier exactly when
\* ai_source is "llm" and absent otherwise; likewise for chat and its response.
C15_Provenance ==
    /\ AnalyzeReturned =>
           /\ ret.value.ai_source \in {"llm", "rule-based"}
           /\ (ret.value.ai_source = "llm")
                  = (GeneratedText # "" /\ ret.value.analysis = GeneratedAnalysis)
           /\ (ret.value.ai_source = "rule-based") = (ret.value.analysis = RuleAnalysis)
           /\ (ret.value.model = PyStr(MODEL_FILE)) = (ret.value.ai_source = "llm")
           /\ (ret.value.model = PyNone) = (ret.value.ai_source = "rule-based")
    /\ ChatCalled =>
           /\ ret.value.ai_source \in {"llm", "rule-based"}
           /\ (ret.value.ai_source = "llm")
                  = (GeneratedText # "" /\ ret.value.response = GeneratedText)
           /\ (ret.value.ai_source = "rule-based")
                  = (ret.value.response
                        = _match_knowledge_base(Strip(Lower(call.message.v))).response)
           /\ (ret.value.model = PyStr(MODEL_FILE)) = (ret.value.ai_source = "llm")
           /\ (ret.value.model = PyNone) = (ret.value.ai_source = "rule-based")

\* an analysis that is generated text with a rule-based recommendation
C15_Witness ==
    /\ AnalyzeReturned
    /\ ret.value.ai_source = "llm"
    /\ ret.value.analysis = "Looks fine to answer."
    /\ ret.value.recommendation = RECOMMENDATIONS[ret.value.risk_level]
    /\ ret.value.model = PyStr(MODEL_FILE)

\* the call is an analysis of a landline without reports to which no scorer
\* but the line-type scorer gives points
LandlineOnly ==
    /\ call.fn = "analyze_number"
    /\ call.reports = <<>>
    /\ LineTypeLower = "landline"
    /\ Get(call.trace_data, "spam_reports", PyInt(0)) = PyInt(0)
    /\ _score_validity(call.trace_data).value.points = 0
    /\ _score_country(call.trace_data).value.points = 0
    /\ _score_carrier(call.trace_data).value.points = 0
    /\ _score_porting(call.trace_data).value.points = 0

\* C17: for a trace of line type Landline with no other risk factor the factor
\* points sum to -3, and the result has risk_score 0 and risk_level Low.
C17_LandlineDiscount ==
    LandlineOnly =>
        /\ ret.raised = ""
        /\ PointsSum = -3
        /\ ret.value.risk_score = 0
        /\ ret.value.risk_level = "Low"

\* the analysis of such a landline
C17_Witness ==
    /\ LandlineOnly
    /\ call.trace_data.line_type = PyStr("Landline")
    /\ PointsSum < 0
    /\ ret.value.risk_score = 0
    /\ ret.value.factors[1] = "Landline number - generally lower risk"

\* C18: for the trace of scenario A (valid, possible, US, AT&T as current and
\* original carrier, Mobile, no spam report) and no reports, analyze_number
\* returns a risk_score below 25, risk_level Low and threat_type Clean,
\* whatever the generator does.
C18_ScenarioA ==
    (call.fn = "analyze_number" /\ call.trace_data = ScenarioATrace /\ call.reports = <<>>)
        => /\ ret.raised = ""
           /\ ret.value.risk_score < 25
           /\ ret.value.risk_level = "Low"
           /\ ret.value.threat_type = "Clean"

\* scenario A answered with generated text
C18_Witness ==
    /\ call.fn = "analyze_number"
    /\ call.trace_data = ScenarioATrace
    /\ call.reports = <<>>
    /\ ret.raised = ""
    /\ ret.value.ai_source = "llm"
    /\ ret.value.threat_type = "Clean"

\* scenario A answered while the generator fails to load
C18_WitnessNoGenerator ==
    /\ call.fn = "analyze_number"
    /\ call.trace_data = ScenarioATrace
    /\ gen.load = "load_error"
    /\ ret.value.ai_source = "rule-based"
    /\ ret.value.threat_type = "Clean"

\* the severity of a report's type, 5 for a type that is missing or not in
\* the table
TypeSeverity(report) ==
    IF "type" \notin DOMAIN report THEN 5
    ELSE IF Lower(report.type.v) \in DOMAIN REPORT_SEVERITY
    THEN REPORT_SEVERITY[Lower(report.type.v)]
    ELSE 5

RECURSIVE TypeSeveritySum(_)
TypeSeveritySum(reports) ==
    IF reports = <<>> THEN 0
    ELSE TypeSeverity(Head(reports)) + TypeSeveritySum(Tail(reports))

\* the keywords of a list that a report's description contains, by position
KeywordsIn(keywords, report) ==
    IF "description" \notin DOMAIN report THEN {}
    ELSE {k \in 1..Len(keywords) : Contains(Lower(report.description.v), keywords[k])}

\* the reports whose description has a severe keyword, by position
SevereReports(reports) ==
    {i \in 1..Len(reports) : KeywordsIn(SEVERE_KEYWORDS, reports[i]) # {}}

\* the reports whose description has a moderate keyword and no severe one
ModerateReports(reports) ==
    {i \in 1..Len(reports) : /\ KeywordsIn(SEVERE_KEYWORDS, reports[i]) = {}
                             /\ KeywordsIn(MODERATE_KEYWORDS, reports[i]) # {}}

RECURSIVE SevereMessages(_)
\* one message for each report with a severe keyword, in the order of the reports
SevereMessages(reports) ==
    IF reports = <<>> THEN <<>>
    ELSE (IF KeywordsIn(SEVERE_KEYWORDS, Head(reports)) = {} THEN <<>>
          ELSE <<"Severe keyword detected: '"
                 \o SEVERE_KEYWORDS[SetMin(KeywordsIn(SEVERE_KEYWORDS, Head(reports)))]
                 \o "' in report">>)
         \o SevereMessages(Tail(reports))

\* C20: the report-content scorer returns min(20, the sum of the severities of
\* the report types, 5 for an unrecognised or missing type), plus 5 for each
\* report with a severe keyword, plus 2 for each report with a moderate keyword
\* and no severe one; one message for each report with a severe keyword, in
\* report order, naming the first keyword of the severe list that occurs; 0
\* points and no message for no reports.
C20_ReportContents ==
    call.fn = "_score_report_contents" =>
        \A total \in {TypeSeveritySum(call.reports)} :
            /\ ret.raised = ""
            /\ ret.value.points =
                   (IF total < 20 THEN total ELSE 20)
                   + 5 * Cardinality(SevereReports(call.reports))
                   + 2 * Cardinality(ModerateReports(call.reports))
            /\ ret.value.msgs = SevereMessages(call.reports)
            /\ call.reports = <<>> => ret = Factor(0, <<>>)

\* a report whose description has two severe keywords and a moderate one: its
\* message names the severe keyword that is first in the list, not in the text
C20_Witness ==
    /\ call.fn = "_score_report_contents"
    /\ call.reports = <<[type |-> PyStr("robocall"),
                         description |-> PyStr("Free PASSWORD reset for your bank")]>>
    /\ Cardinality(KeywordsIn(SEVERE_KEYWORDS, call.reports[1])) = 2
    /\ KeywordsIn(MODERATE_KEYWORDS, call.reports[1]) # {}
    /\ ret = Factor(17, <<"Severe keyword detected: 'bank' in report">>)

\* ten reports whose type severities sum above the cap
C20_WitnessCapped ==
    /\ call.fn = "_score_report_contents"
    /\ call.reports = ClampReports
    /\ TypeSeveritySum(call.reports) > 20
    /\ ret.value.points = 20 + 5 * Len(call.reports)

\* the number of a request can be parsed
Parseable(number) == phonenumbers_parse(CleanNumber(number)).raised = ""

\* C19: a /api/trace or /api/report request whose number cannot be parsed is
\* answered with status 400 and leaves the stored reports and the lookup
\* history as they were.
C19_BadNumberRejected ==
    [][(/\ call = Idle
        /\ call'.fn \in {"trace_number", "report_number"}
        /\ ~Parseable(call'.number))
           => /\ StatusOf(ret') = 400
              /\ reports_file' = reports_file
              /\ history_file' = history_file]_vars

\* a report of a number that cannot be parsed, rejected while reports and
\* lookups are stored
C19_Witness ==
    /\ call.fn = "report_number"
    /\ call.number = "invalid"
    /\ StatusOf(ret) = 400
    /\ reports_file # <<>>
    /\ history_file # <<>>

\* a lookup of a number that cannot be parsed, rejected likewise
C19_WitnessTrace ==
    /\ call.fn = "trace_number"
    /\ call.number = "not-a-number"
    /\ StatusOf(ret) = 400
    /\ reports_file # <<>>
    /\ history_file # <<>>

\* the thread t has the result of an analyze_number request, and the result
\* has what the request yields when it runs alone
YieldsAsAlone(t) ==
    \A alone \in {Assess(threads[t].request.trace_data, threads[t].request.reports)} :
        IF alone.raised # "" THEN threads[t].result = alone
        ELSE /\ threads[t].result.raised = ""
             /\ threads[t].result.value.risk_score = alone.value.score
             /\ threads[t].result.value.risk_level = alone.value.risk_level
             /\ threads[t].result.value.threat_type = alone.value.threat_type
             /\ threads[t].result.value.factors = Take(alone.value.factors, 6)

\* C16: when analyze_number and chat requests run concurrently, interleaved in
\* any way and whatever the state of the generator, the risk_score, risk_level,
\* threat_type and factors of each request are those it yields when run alone,
\* and the trace_data and reports passed to a request stay as they were passed.
C16_ConcurrentRequests ==
    /\ [](\A t \in Threads :
              (threads[t].pc = "done" /\ threads[t].request.fn = "analyze_number")
                  => YieldsAsAlone(t))
    /\ [][\A t \in Threads :
              (threads[t].pc # "idle" /\ threads'[t].pc # "idle")
                  => threads'[t].request = threads[t].request]_vars

\* an analysis has finished with a score of 100 while another thread, serving
\* another analysis, holds the lock and loads the model
C16_Witness ==
    /\ threads["t1"].pc = "done"
    /\ threads["t1"].request.fn = "analyze_number"
    /\ threads["t1"].result.raised = ""
    /\ threads["t1"].result.value.risk_score = 100
    /\ threads["t2"].pc = "loading"
    /\ threads["t2"].request.fn = "analyze_number"
    /\ threads["t2"].request.trace_data = CleanTrace
    /\ llm_lock = "t2"
    /\ llm_status.state = "loading"

\* the line_type label of the scorer call that has just been made, lower-cased;
\* a missing or null label counts as the empty label
LabelLower ==
    IF "line_type" \in DOMAIN call.trace_data /\ IsStr(call.trace_data.line_type)
    THEN Lower(call.trace_data.line_type.v)
    ELSE ""

\* the label of the call is a text, null or missing
LabelGiven ==
    \/ "line_type" \notin DOMAIN call.trace_data
    \/ call.trace_data.line_type = PyNone
    \/ IsStr(call.trace_data.line_type)

\* the scorers other than the line-type scorer
OtherScorers ==
    {"_score_spam_reports", "_score_report_contents", "_score_validity",
     "_score_country", "_score_carrier", "_score_porting"}

\* C21: the line-type scorer, comparing without regard to case, returns +15 for
\* "voip", +12 for "premium rate" and +5 for "toll-free", each with its one
\* message; otherwise -3 with one message when the label contains "landline";
\* otherwise, also for a missing or null label, 0 points and no message.  No
\* other scorer returns negative points.
C21_LineTypeScorer ==
    /\ (call.fn = "_score_line_type" /\ LabelGiven) =>
           /\ ret.raised = ""
           /\ ret.value =
                  CASE LabelLower = "voip" ->
                         [points |-> 15,
                          msgs |-> <<"VoIP number - commonly used for spoofing and scam calls">>]
                    [] LabelLower = "premium rate" ->
                         [points |-> 12,
                          msgs |-> <<"Premium rate number - may incur unexpected charges">>]
                    [] LabelLower = "toll-free" ->
                         [points |-> 5,
                          msgs |-> <<"Toll-free number - sometimes used by telemarketers">>]
                    [] OTHER ->
                         IF Occurrences(LabelLower, "landline") # {}
                         THEN [points |-> -3,
                               msgs |-> <<"Landline number - generally lower risk">>]
                         ELSE [points |-> 0, msgs |-> <<>>]
    /\ (call.fn \in OtherScorers /\ ret.raised = "") => ret.value.points >= 0

\* the line-type scorer has taken points off for a label that only contains
\* "landline"
C21_Witness ==
    /\ call.fn = "_score_line_type"
    /\ call.trace_data = [line_type |-> PyStr("Landline/Mobile")]
    /\ ret.raised = ""
    /\ ret.value.points < 0

\* the line-type scorer has given nothing for a null label
C21_WitnessNull ==
    /\ call.fn = "_score_line_type"
    /\ "line_type" \in DOMAIN call.trace_data
    /\ call.trace_data.line_type = PyNone
    /\ ret = Factor(0, <<>>)

\* the positions in s of a line break followed at once by another
Boundaries(s) ==
    {i \in 1..(Len(s) - 1) : CharAt(s, i) = "\n" /\ CharAt(s, i + 1) = "\n"}

\* what precedes the first blank line of s, without the white space around it
BeforeBlankLine(s) ==
    LET i == CHOOSE x \in Boundaries(s) : \A y \in Boundaries(s) : x <= y
    IN  Strip(SubSeq(s, 1, i - 1))

\* what follows the first blank line of s, without the white space around it
AfterBlankLine(s) ==
    LET i == CHOOSE x \in Boundaries(s) : \A y \in Boundaries(s) : x <= y
    IN  Strip(SubSeq(s, i + 2, Len(s)))

\* C22: when analyze_number takes generated text that has no blank line, the
\* analysis is the whole text, the recommendation is the canned recommendation
\* of the computed risk level and ai_source is "llm"; when the text has a blank
\* line, the analysis is what precedes the first one and the recommendation is
\* the rest, which is not empty (both without the white space around them).
C22_SplitOnBlankLine ==
    (AnalyzeReturned /\ GeneratedText # "") =>
        \A text \in {GeneratedText} :
            /\ ret.value.ai_source = "llm"
            /\ IF Boundaries(text) = {}
               THEN /\ ret.value.analysis = text
                    /\ ret.value.recommendation = RECOMMENDATIONS[ret.value.risk_level]
               ELSE /\ ret.value.analysis = BeforeBlankLine(text)
                    /\ ret.value.recommendation = AfterBlankLine(text)
                    /\ ret.value.recommendation # ""

\* a generated text with two blank lines was cut at the first
C22_Witness ==
    /\ AnalyzeReturned
    /\ gen.content = PyStr("Risky. \n\nBlock it.\n\nReport it.")
    /\ ret.value.analysis = "Risky."
    /\ ret.value.recommendation = "Block it.\n\nReport it."
    /\ ret.value.risk_level = "Critical"

\* a generated text with line breaks but no blank line is the whole analysis
C22_WitnessWhole ==
    /\ AnalyzeReturned
    /\ ret.value.analysis = "Seems safe.\nAnswer with care."
    /\ ret.value.recommendation = RECOMMENDATIONS["High"]
    /\ ret.value.ai_source = "llm"

\* C23: the generator is initialised once: once a load attempt has ended, in
\* state "ready" or in state "error", no later call of analyze_number or chat
\* starts another download or load, and the status stays at that outcome.
C23_InitialisedOnce ==
    [][llm_status.state \in {"ready", "error"} =>
           /\ llm_status' = llm_status
           /\ gen'.load \in {"cached", "not_called"}]_vars

\* C25: whenever the status says "ready" its error is None and its model_name
\* is set, and whenever it says "error" its error is set, after any sequence
\* of failed and successful loads.
C25_StatusConsistent ==
    /\ llm_status.state = "ready" =>
           /\ llm_status.error = PyNone
           /\ llm_status.model_name # PyNone
    /\ llm_status.state = "error" => llm_status.error # PyNone

\* the threads that are inside _load_llm, past the test of _llm
Loaders == {t \in Threads : threads[t].pc \in {"downloading", "loading"}}

\* C24: however concurrent requests interleave, at most one thread at a time
\* downloads or constructs the model, the model is constructed successfully at
\* most once and, once set, _llm stays the object every call gets, and a
\* request that arrives while another thread is in _load_llm waits for it
\* rather than starting a second load.
C24_OneLoader ==
    /\ [](/\ Cardinality(Loaders) <= 1
          /\ \A t \in Threads :
                 threads[t].pc \in {"locked", "downloading", "loading"} => llm_lock = t)
    /\ [][/\ llm # "None" => llm' = llm
          /\ \A t \in Threads :
                 /\ (threads[t].pc = "loading" /\ threads'[t].pc = "generate")
                        => (llm = "None" /\ llm' # "None")
                 /\ (threads[t].pc = "load" /\ llm_lock # "unlocked")
                        => threads'[t].pc = "load"]_vars

\* a request has arrived while the other thread constructs the model, and waits
C24_Witness ==
    /\ threads["t1"].pc = "loading"
    /\ llm_lock = "t1"
    /\ threads["t2"].pc = "load"
    /\ llm = "None"

\* both threads have got the model that one of them constructed
C24_WitnessShared ==
    /\ threads["t1"].pc = "generate"
    /\ threads["t2"].pc = "generate"
    /\ llm = "Llama"
    /\ llm_lock = "unlocked"

\* the entries of a history are ordered the latest first
LatestFirst(history) ==
    \A i \in 1..Len(history) : \A j \in i..Len(history) :
        history[i].timestamp >= history[j].timestamp

\* C26: after any sequence of /api/trace requests the stored history has at
\* most 50 entries, the latest first, the entry of the last successful trace
\* being the first; /api/recent returns at most 20 entries: the latest ones,
\* in that order.
C26_HistoryBounded ==
    /\ Len(history_file) <= 50
    /\ LatestFirst(history_file)
    /\ (call.fn = "trace_number" /\ ret.raised = "") =>
           /\ history_file # <<>>
           /\ history_file[1] = [number |-> ret.value.e164, timestamp |-> now]
    /\ call.fn = "recent_lookups" =>
           /\ ret.raised = ""
           /\ Len(ret.value) <= 20
           /\ Len(ret.value) = IF Len(history_file) < 20 THEN Len(history_file) ELSE 20
           /\ \A i \in 1..Len(ret.value) : ret.value[i] = history_file[i]

\* a trace has been stored in a history that was full: the oldest entry is gone
C26_Witness ==
    /\ call.fn = "trace_number"
    /\ ret.raised = ""
    /\ Len(history_file) = 50
    /\ history_file[50].timestamp = 0 - 48
    /\ history_file[2].timestamp = 1
    /\ history_file[1].timestamp = 2

\* /api/recent has returned 20 of more than 20 entries
C26_WitnessRecent ==
    /\ call.fn = "recent_lookups"
    /\ Len(ret.value) = 20
    /\ Len(history_file) = 50
    /\ ret.value[1].timestamp = 1

\* how many of the reports are for number
CountFor(reports, number) ==
    Cardinality({i \in 1..Len(reports) : reports[i].number = number})

\* the number of a request as it is stored
NormalizedOf(number) == E164(phonenumbers_parse(CleanNumber(number)).value)

\* in this step the request of t, served by fn, gets a successful response
Succeeds(t, fn) ==
    /\ threads[t].pc # "done"
    /\ threads'[t].pc = "done"
    /\ threads'[t].request.fn = fn
    /\ threads'[t].result.raised = ""

\* C27: however /api/report and /api/trace requests interleave in one server
\* process, no acknowledged report is lost: each successful report adds exactly
\* one report, for its normalized number, to the stored ones and leaves the
\* others as they were, its total_reports_for_number is the number of stored
\* reports for that number with the new one, nothing else changes the stored
\* reports, and a trace reports as spam_reports the number of reports stored
\* for its number.
C27_NoLostReport ==
    [][/\ \A t \in Threads :
              /\ Succeeds(t, "report_number") =>
                     /\ Len(reports_file') = Len(reports_file) + 1
                     /\ SubSeq(reports_file', 1, Len(reports_file)) = reports_file
                     /\ reports_file'[Len(reports_file')].number
                            = NormalizedOf(threads[t].request.number)
                     /\ threads'[t].result.value.total_reports_for_number
                            = CountFor(reports_file',
                                       NormalizedOf(threads[t].request.number))
              /\ Succeeds(t, "trace_number") =>
                     threads'[t].result.value.spam_reports
                         = CountFor(reports_file,
                                    NormalizedOf(threads[t].request.number))
       /\ (~ \E t \in Threads : Succeeds(t, "report_number"))
              => reports_file' = reports_file]_vars

\* a second report for a number is acknowledged, after a report for another
\* number, while a trace of the number that began before both awaits
C27_Witness ==
    /\ threads["t1"].pc = "done"
    /\ threads["t1"].request.fn = "report_number"
    /\ threads["t1"].request.number = "1 (415) 858-6273"
    /\ threads["t1"].result.raised = ""
    /\ threads["t1"].result.value.total_reports_for_number = 2
    /\ Len(reports_file) = 3
    /\ reports_file[2].number = "+919876543210"
    /\ threads["t2"].pc = "awaiting"
    /\ threads["t2"].request.number = "+14158586273"
    /\ history_file = <<>>

\* a trace that awaited while two reports for its number were stored reports both
C27_WitnessTrace ==
    /\ threads["t2"].pc = "done"
    /\ threads["t2"].request.fn = "trace_number"
    /\ threads["t2"].result.raised = ""
    /\ threads["t2"].result.value.spam_reports = 2
    /\ Len(history_file) = 1

\* C28: once the wait loop of run_app.main has ended, because a child exited
\* or because of Ctrl+C at any point after a child was started, during the
\* start-up and during the shutdown too, every child that was started is
\* signalled and, when it does not exit in time or the signal fails, killed:
\* no started child is running when main is left.
C28_ChildrenStopped ==
    main_pc \in {"returned", "interrupted"} =>
        \A c \in DOMAIN children : children[c] \notin {"running", "signalled"}

\* C29: the factors analyze_number returns are never empty and never more than
\* six, since the country scorer always gives one message; so the rule-based
\* analysis it returns always has its "Key findings" part and never the
\* sentence "No significant risk factors detected".
C29_FactorsNeverEmpty ==
    AnalyzeReturned =>
        /\ Len(ret.value.factors) >= 1
        /\ Len(ret.value.factors) <= 6
        /\ Len(_score_country(call.trace_data).value.msgs) = 1
        /\ ret.value.ai_source = "rule-based" =>
               /\ Occurrences(ret.value.analysis, " Key findings: ") # {}
               /\ Occurrences(ret.value.analysis,
                              "No significant risk factors detected") = {}

\* the analysis of a number nothing speaks against: its one factor is the
\* message of the country scorer
C29_Witness ==
    /\ AnalyzeReturned
    /\ ret.value.factors = <<"Country risk: normal (United States)">>
    /\ ret.value.ai_source = "rule-based"
    /\ ret.value.risk_score = 0

\* an analysis with more than six messages returns six factors
C29_WitnessSix ==
    /\ AnalyzeReturned
    /\ call.trace_data = ClampTrace
    /\ call.reports = ClampReports
    /\ Len(ret.value.factors) = 6

\* C30: in every result of analyze_number the threat type agrees with the risk
\* level: "Clean" goes with "Low", "Potentially Unwanted" with "Medium",
\* "Suspicious" with "High" or "Critical", and "Suspicious VoIP" never with
\* "Low", the score being 30 or more.
C30_ThreatTypeAgrees ==
    AnalyzeReturned =>
        /\ ret.value.threat_type = "Clean" => ret.value.risk_level = "Low"
        /\ ret.value.threat_type = "Potentially Unwanted"
               => ret.value.risk_level = "Medium"
        /\ ret.value.threat_type = "Suspicious"
               => ret.value.risk_level \in {"High", "Critical"}
        /\ ret.value.threat_type = "Suspicious VoIP" =>
               /\ ret.value.risk_level # "Low"
               /\ ret.value.risk_score >= 30

\* a VoIP number whose score is just 30: "Suspicious VoIP" at the level "Medium"
C30_Witness ==
    /\ AnalyzeReturned
    /\ ret.value.threat_type = "Suspicious VoIP"
    /\ ret.value.risk_score = 30
    /\ ret.value.risk_level = "Medium"

\* a number called "Suspicious" at the level "Critical"
C30_WitnessSuspicious ==
    /\ AnalyzeReturned
    /\ ret.value.threat_type = "Suspicious"
    /\ ret.value.risk_level = "Critical"

====
